---- MODULE Spec2Model ----
(***************************************************************************)
(* The spatial-hash radiance cache of Sipher-DDGI.                         *)
(*                                                                         *)
(* The cache is written by the compute shader CS of RadianceCacheCS.hlsl   *)
(* (the copy under src/samples/test-harness/shaders/GBufferCS.hlsl, lines  *)
(* 262-513).  One invocation ("thread") of CS handles one HitIndex: it     *)
(* runs the checksum collision policy on MetadataBuffer, adds its scaled   *)
(* radiance to AccumulationBuffer with four InterlockedAdd calls, blends   *)
(* the accumulated mean into RadianceCachingBuffer and updates the         *)
(* visualization buffer.  Every buffer access of the shader is one step of *)
(* the model, so that invocations interleave as they do on the GPU.        *)
(*                                                                         *)
(* float values are modelled as exact rationals <<numerator, denominator>>;*)
(* uint values as naturals.                                                *)
(***************************************************************************)
EXTENDS Integers, Sequences, FiniteSets, TLC

(***************************************************************************)
(* Bounds of the model.                                                    *)
(***************************************************************************)
\* number of entries of each cache buffer
NumCells == 1
\* invocations of CS that one dispatch runs concurrently
MaxThreads == 2
\* invocations of CS over a whole behaviour
MaxWrites == 3
\* largest frame number
MaxFrame == 5
\* invocations of CS over a whole behaviour that runs them one at a time
MaxSeqWrites == 4
\* probe rays of the volume
NumRays == 2
\* dispatches of ProbeRayResolveCS in one time step
MaxScatterPasses == 2

(***************************************************************************)
(* Compile-time parameters of the shader.                                  *)
(***************************************************************************)
RADIANCE_CACHE_RADIANCE_SCALE == 1024
RADIANCE_CACHE_MAX_ACCUMULATED_SAMPLES == 32
RADIANCE_CACHE_COLLISION_EVICT_THRESHOLD == 4

(***************************************************************************)
(* float arithmetic, as exact rationals <<n, d>> with d > 0 in lowest      *)
(* terms.                                                                  *)
(***************************************************************************)
RECURSIVE GCD(_, _)
GCD(a, b) == IF b = 0 THEN a ELSE GCD(b, a % b)

Abs(x) == IF x < 0 THEN -x ELSE x

Rat(n, d) == LET g == GCD(Abs(n), d) IN <<n \div g, d \div g>>

Zero == <<0, 1>>
One == <<1, 1>>

RAdd(x, y) ==
    LET g == GCD(x[2], y[2])
        l == (x[2] \div g) * y[2]
    IN  Rat(x[1] * (l \div x[2]) + y[1] * (l \div y[2]), l)

RNeg(x) == <<-x[1], x[2]>>

RSub(x, y) == RAdd(x, RNeg(y))

RMul(x, y) ==
    LET a == Rat(x[1], y[2])
        b == Rat(y[1], x[2])
    IN  <<a[1] * b[1], a[2] * b[2]>>

RLeq(x, y) == x[1] * y[2] <= y[1] * x[2]

RMin(x, y) == IF RLeq(x, y) THEN x ELSE y

RMax(x, y) == IF RLeq(x, y) THEN y ELSE x

\* HLSL saturate(): clamp to [0, 1]
Saturate(x) == RMax(Zero, RMin(One, x))

\* HLSL lerp(a, b, s) = a + s * (b - a)
Lerp(a, b, s) == RAdd(a, RMul(s, RSub(b, a)))

\* HLSL uint(float) conversion of a non-negative value: truncation
FloatToUint(x) == x[1] \div x[2]

\* float3 values are triples of rationals
Zero3 == <<Zero, Zero, Zero>>

Add3(a, b) == <<RAdd(a[1], b[1]), RAdd(a[2], b[2]), RAdd(a[3], b[3])>>

Lerp3(a, b, s) == <<Lerp(a[1], b[1], s), Lerp(a[2], b[2], s), Lerp(a[3], b[3], s)>>

(***************************************************************************)
(* uint arithmetic.  The frame difference wraps when the stored frame is   *)
(* ahead of the current frame; TLC's integers end at 2^31 - 1, so the      *)
(* wrapped value 2^32 - d is represented by 2^31 - d, which is as far above*)
(* every threshold of the shader as the real value is.  The accumulated    *)
(* sums stay far below 2^32 within the bounds of the model.                *)
(***************************************************************************)
UintWrap == 2147483647

UintSub(a, b) == IF a >= b THEN a - b ELSE (UintWrap - (b - a)) + 1

UintAdd(a, b) == a + b

(***************************************************************************)
(* A uint at its full width, for the sums of a cell that has been written  *)
(* for a long time: two limbs of 16 bits, <<high, low>>.  InterlockedAdd   *)
(* adds modulo 2^32.                                                       *)
(***************************************************************************)
Limb == 65536

U32(n) == <<n \div Limb, n % Limb>>

U32Add(a, b) ==
    LET low == a[2] + b[2]
        high == a[1] + b[1] + (low \div Limb)
    IN  <<high % Limb, low % Limb>>

\* a * k modulo 2^32, for k <= RADIANCE_CACHE_RADIANCE_SCALE
U32Scale(a, k) ==
    LET low == a[2] * k
        high == a[1] * k + (low \div Limb)
    IN  <<high % Limb, low % Limb>>

U32Leq(a, b) == a[1] < b[1] \/ (a[1] = b[1] /\ a[2] <= b[2])

ZeroAccum32 == [R |-> U32(0), G |-> U32(0), B |-> U32(0), Count |-> U32(0)]

(***************************************************************************)
(* Inputs of an invocation: the surface point stored for its HitIndex,     *)
(* with the checksum of its grid cell (SpatialHash_Checksum) and the       *)
(* lighting computed for it.  The first radiance is a multiple of 1/1024   *)
(* in [0, 1]; the second exceeds 1 in one channel and is no multiple of    *)
(* 1/1024 in another.                                                      *)
(***************************************************************************)
Red == <<One, Zero, Zero>>
Bright == <<Rat(2, 1), Rat(1, 2), Zero>>

Surfaces ==
    { [Checksum |-> 1, DirectLight |-> Red, IndirectLight |-> Zero3],
      [Checksum |-> 2, DirectLight |-> Bright, IndirectLight |-> <<Zero, Zero, Rat(1, 3)>>] }

Cells == 0 .. (NumCells - 1)
Rays == 0 .. (NumRays - 1)
ThreadIds == 1 .. MaxThreads

(***************************************************************************)
(* State.                                                                  *)
(***************************************************************************)
VARIABLES
    frameNumber,                \* GetGlobalConst(app, frameNumber)
    useCollisionDetection,      \* RADIANCE_CACHE_USE_COLLISION_DETECTION of the build
    AccumulationBuffer,         \* per cell: R, G, B, Count (uint)
    MetadataBuffer,             \* per cell: Checksum, Frame (uint)
    RadianceCachingBuffer,      \* per cell: float3
    VisualizationBuffer,        \* per cell: DirectRadiance, IndirectRadiance (float3)
    threads,                    \* per invocation: position, inputs and locals
    writes,                     \* invocations launched so far
    dispatchStart,              \* the buffers when the running dispatch was launched
    fed,                        \* per cell: the inputs of every invocation launched on it
    claimed,                    \* per cell: checksum and frame of the first invocations launched on it
    Accumulation32,             \* one entry of AccumulationBuffer at its full width of 32 bits
    writes32,                   \* writes applied to that entry
    HitCachingBuffer,           \* per cell: the probe ray whose hit was stored last
    ProbeRayHitMapBuffer,       \* per probe ray: HashID or sentinel, asuint(HitDistance)
    RayData,                    \* per probe ray: what the probe blending reads
    rays,                       \* per probe ray: position and locals of its invocations
    scatterPass,                \* dispatches of ProbeRayResolveCS so far
    firstRayData,               \* RayData as the first of them left it
    sinceReset,                 \* the invocations launched since the table was last all zero
    hash,                       \* a surface point, the table's configuration and what the stages computed for it
    build,                      \* ShaderCompiler: the files it works on and the run in progress
    parser                      \* IncludeParser: the shader tree and the call in progress

vars == <<frameNumber, useCollisionDetection, AccumulationBuffer, MetadataBuffer,
          RadianceCachingBuffer, VisualizationBuffer, threads, writes,
          dispatchStart, fed, claimed, Accumulation32, writes32,
          HitCachingBuffer, ProbeRayHitMapBuffer, RayData, rays, scatterPass,
          firstRayData, sinceReset, hash, build, parser>>

buffers == <<AccumulationBuffer, MetadataBuffer, RadianceCachingBuffer,
             VisualizationBuffer>>

\* the state beside the cache of the concurrent model
lifetime == <<Accumulation32, writes32>>

probe == <<HitCachingBuffer, ProbeRayHitMapBuffer, RayData, rays, scatterPass,
           firstRayData>>

tools == <<build, parser>>

side == <<lifetime, probe, sinceReset, hash, tools>>

ZeroAccum == [R |-> 0, G |-> 0, B |-> 0, Count |-> 0]
ZeroMeta == [Checksum |-> 0, Frame |-> 0]
ZeroVis == [DirectRadiance |-> Zero3, IndirectRadiance |-> Zero3]

IdleThread ==
    [pc |-> "idle", HitIndex |-> 0, Checksum |-> 0,
     DirectLight |-> Zero3, IndirectLight |-> Zero3,
     StoredChecksum |-> 0, branch |-> "None", bSkipAccumulation |-> FALSE,
     OriginalR |-> 0, OriginalG |-> 0, OriginalB |-> 0, OriginalCount |-> 0,
     OldRadiance |-> Zero3,
     OldDirectRadiance |-> Zero3, OldIndirectRadiance |-> Zero3]

Snapshot ==
    [Accumulation |-> AccumulationBuffer, Metadata |-> MetadataBuffer,
     Radiance |-> RadianceCachingBuffer, Frame |-> frameNumber]

\* no surface point has been indexed
NoHash == [pc |-> "none"]

\* neither tool has been started
NoBuild == [pc |-> "none"]

NoParse == [pc |-> "none"]

InitTools == build = NoBuild /\ parser = NoParse

InitCache ==
    /\ frameNumber = 1
    /\ useCollisionDetection \in BOOLEAN
    /\ AccumulationBuffer = [i \in Cells |-> ZeroAccum]
    /\ MetadataBuffer = [i \in Cells |-> ZeroMeta]
    /\ RadianceCachingBuffer = [i \in Cells |-> Zero3]
    /\ VisualizationBuffer = [i \in Cells |-> ZeroVis]
    /\ threads = [t \in ThreadIds |-> IdleThread]
    /\ writes = 0
    /\ dispatchStart = Snapshot
    /\ fed = [i \in Cells |-> {}]
    /\ claimed = [i \in Cells |-> {}]

InitEntry32 ==
    /\ Accumulation32 = ZeroAccum32
    /\ writes32 = 0

\* zero-initialized buffers and texture, no probe ray traced yet
ZeroHit == [ProbeRayIndex |-> 0, HitDistance |-> Zero]
ZeroHitMap == [HashID |-> U32(0), HitDistance |-> 0]
ZeroRayData == [Kind |-> "none", Radiance |-> Zero3, Distance |-> Zero]

IdleRay == [pc |-> "untraced", HashID |-> U32(0), HitDistance |-> Zero,
            CachedRadiance |-> Zero3]

InitProbe ==
    /\ HitCachingBuffer = [i \in Cells |-> ZeroHit]
    /\ ProbeRayHitMapBuffer = [q \in Rays |-> ZeroHitMap]
    /\ RayData = [q \in Rays |-> ZeroRayData]
    /\ rays = [q \in Rays |-> IdleRay]
    /\ scatterPass = 0
    /\ firstRayData = [q \in Rays |-> ZeroRayData]

Init ==
    /\ InitCache
    /\ InitEntry32
    /\ InitProbe
    /\ sinceReset = <<>>
    /\ hash = NoHash
    /\ InitTools

(***************************************************************************)
(* The host: frames and dispatches.  Every invocation of a dispatch has    *)
(* completed before the next dispatch or the next frame starts.            *)
(***************************************************************************)
Quiescent == \A t \in ThreadIds : threads[t].pc = "idle"

\* every invocation of the running dispatch has returned
Completed ==
    /\ \E t \in ThreadIds : threads[t].pc = "done"
    /\ \A t \in ThreadIds : threads[t].pc \in {"idle", "done"}

\* the first buffer access of an invocation: the metadata load of the
\* collision policy when it is compiled in, the first InterlockedAdd otherwise
FirstPc == IF useCollisionDetection THEN "LoadChecksum" ELSE "AddR"

NewThread(i, s) ==
    [IdleThread EXCEPT !.pc = FirstPc, !.HitIndex = i, !.Checksum = s.Checksum,
                       !.DirectLight = s.DirectLight,
                       !.IndirectLight = s.IndirectLight]

\* invocations are interchangeable: a dispatch numbers them by their inputs
InputOrder(i, s, j, r) == i < j \/ (i = j /\ s.Checksum <= r.Checksum)

\* The host launches a dispatch of CS.  Its code is not part of the sources
\* at hand: as the design of the cache has it, the writers of one dispatch
\* run in parallel and may meet on a cell, so the invocations are given any
\* HitIndex and any input, several of them the same HitIndex included.
Launch(maxThreads, maxWrites) ==
    /\ Quiescent
    /\ \E n \in 1 .. maxThreads :
         /\ writes + n <= maxWrites
         /\ \E hit \in [1 .. n -> Cells], surf \in [1 .. n -> Surfaces] :
              /\ \A t \in 1 .. (n - 1) : InputOrder(hit[t], surf[t], hit[t + 1], surf[t + 1])
              /\ threads' = [t \in ThreadIds |->
                                IF t <= n THEN NewThread(hit[t], surf[t])
                                ELSE IdleThread]
              /\ fed' = [i \in Cells |->
                            fed[i] \cup {surf[t] : t \in {u \in 1 .. n : hit[u] = i}}]
              /\ claimed' = [i \in Cells |->
                                IF fed[i] # {} THEN claimed[i]
                                ELSE {[Checksum |-> surf[t].Checksum, Frame |-> frameNumber] :
                                         t \in {u \in 1 .. n : hit[u] = i}}]
         /\ writes' = writes + n
    /\ dispatchStart' = Snapshot
    /\ UNCHANGED <<side, frameNumber, useCollisionDetection, buffers>>

\* a dispatch of up to MaxThreads concurrent invocations
Dispatch == Launch(MaxThreads, MaxWrites)

\* a dispatch of a single invocation
DispatchOne == Launch(1, MaxSeqWrites)

\* the end of a dispatch: its invocations are gone
Retire ==
    /\ Completed
    /\ threads' = [t \in ThreadIds |-> IdleThread]
    /\ dispatchStart' = Snapshot
    /\ UNCHANGED <<side, frameNumber, useCollisionDetection, buffers, writes, fed, claimed>>

NextFrame ==
    /\ Quiescent
    /\ frameNumber < MaxFrame
    /\ frameNumber' = frameNumber + 1
    /\ UNCHANGED <<side, useCollisionDetection, buffers, threads, writes, dispatchStart, fed, claimed>>

CameraMovement ==
    /\ Quiescent
    /\ frameNumber # 1
    /\ frameNumber' = 1
    /\ UNCHANGED <<side, useCollisionDetection, buffers, threads, writes, dispatchStart, fed, claimed>>

(***************************************************************************)
(* The collision policy of CS (lines 387-434): its decisions.              *)
(***************************************************************************)
IsEmpty(StoredChecksum) == StoredChecksum = 0

IsSameCell(StoredChecksum, Checksum) == StoredChecksum = Checksum

IsCollision(StoredChecksum, Checksum) ==
    ~IsEmpty(StoredChecksum) /\ ~IsSameCell(StoredChecksum, Checksum)

\* uint Age = CurrentFrame - StoredFrame
Age(CurrentFrame, StoredFrame) == UintSub(CurrentFrame, StoredFrame)

ShouldEvict(age) == age >= RADIANCE_CACHE_COLLISION_EVICT_THRESHOLD

\* the branch the policy takes on the loaded metadata (lines 401-433)
PolicyBranch(StoredChecksum, StoredFrame, Checksum, CurrentFrame) ==
    IF IsCollision(StoredChecksum, Checksum)
    THEN IF ShouldEvict(Age(CurrentFrame, StoredFrame))
         THEN "Evict"
         ELSE "Reject"
    ELSE IF IsEmpty(StoredChecksum)
         THEN "Claim"
         ELSE "Refresh"

\* the first buffer access of each branch
BranchPc(branch) ==
    CASE branch = "Evict" -> "EvictClearAccumulation"
      [] branch = "Reject" -> "RejectLoadRadiance"
      [] branch = "Claim" -> "ClaimStoreChecksum"
      [] branch = "Refresh" -> "RefreshStoreFrame"

(***************************************************************************)
(* The accumulation and the blend of CS (lines 436-471): its arithmetic.   *)
(***************************************************************************)
NewRadiance(th) == Add3(th.DirectLight, th.IndirectLight)

\* uint3(saturate(NewRadiance) * RADIANCE_CACHE_RADIANCE_SCALE)
ScaledChannel(x) ==
    FloatToUint(RMul(Saturate(x), Rat(RADIANCE_CACHE_RADIANCE_SCALE, 1)))

ScaledRadiance(radiance) ==
    <<ScaledChannel(radiance[1]), ScaledChannel(radiance[2]), ScaledChannel(radiance[3])>>

\* max((float)NewCount, 1.0f)
SampleCountOf(NewCount) == IF NewCount < 1 THEN 1 ELSE NewCount

\* the sum scaled back without being averaged
AccumulatedChannelUnaveraged(sum, SampleCount) ==
    Rat(sum, RADIANCE_CACHE_RADIANCE_SCALE)

AccumulatedChannel(sum, SampleCount) ==
    Rat(sum, RADIANCE_CACHE_RADIANCE_SCALE * SampleCount)

BlendFactor(SampleCount) ==
    IF SampleCount <= 1
    THEN One
    ELSE IF SampleCount < RADIANCE_CACHE_MAX_ACCUMULATED_SAMPLES
         THEN Rat(1, SampleCount)
         ELSE Rat(1, RADIANCE_CACHE_MAX_ACCUMULATED_SAMPLES)

\* lines 449-469, from the values the four InterlockedAdd calls returned and
\* the radiance loaded at line 460
BlendedRadiance(th) ==
    LET Scaled == ScaledRadiance(NewRadiance(th))
        NewR == UintAdd(th.OriginalR, Scaled[1])
        NewG == UintAdd(th.OriginalG, Scaled[2])
        NewB == UintAdd(th.OriginalB, Scaled[3])
        NewCount == UintAdd(th.OriginalCount, 1)
        SampleCount == SampleCountOf(NewCount)
        AccumulatedRadiance ==
            <<AccumulatedChannel(NewR, SampleCount),
              AccumulatedChannel(NewG, SampleCount),
              AccumulatedChannel(NewB, SampleCount)>>
    IN  Lerp3(th.OldRadiance, AccumulatedRadiance, BlendFactor(SampleCount))

VisualizationBlend == Rat(1, RADIANCE_CACHE_MAX_ACCUMULATED_SAMPLES)

\* an invocation that returned: its inputs, the branch its policy took and
\* whether it skipped the accumulation remain; its other locals are dead
DoneThread(th) ==
    [IdleThread EXCEPT !.pc = "done", !.HitIndex = th.HitIndex,
                       !.Checksum = th.Checksum, !.DirectLight = th.DirectLight,
                       !.IndirectLight = th.IndirectLight,
                       !.branch = th.branch,
                       !.bSkipAccumulation = th.bSkipAccumulation]

(***************************************************************************)
(* The steps of one invocation t of CS, one per buffer access.             *)
(***************************************************************************)
host == <<frameNumber, useCollisionDetection, writes, dispatchStart, fed, claimed>>

\* line 391
LoadChecksum(t) ==
    LET th == threads[t] IN
    /\ th.pc = "LoadChecksum"
    /\ threads' = [threads EXCEPT ![t] =
          [th EXCEPT !.StoredChecksum = MetadataBuffer[th.HitIndex].Checksum,
                     !.pc = "LoadFrame"]]
    /\ UNCHANGED <<side, host, buffers>>

\* line 392, and the branch of lines 395-433
LoadFrame(t) ==
    LET th == threads[t]
        StoredFrame == MetadataBuffer[th.HitIndex].Frame
        branch == PolicyBranch(th.StoredChecksum, StoredFrame, th.Checksum, frameNumber)
    IN
    /\ th.pc = "LoadFrame"
    /\ threads' = [threads EXCEPT ![t] =
          [th EXCEPT !.StoredChecksum = 0, !.branch = branch, !.pc = BranchPc(branch)]]
    /\ UNCHANGED <<side, host, buffers>>

\* line 408
EvictClearAccumulation(t) ==
    LET th == threads[t] IN
    /\ th.pc = "EvictClearAccumulation"
    /\ AccumulationBuffer' = [AccumulationBuffer EXCEPT ![th.HitIndex] = ZeroAccum]
    /\ threads' = [threads EXCEPT ![t].pc = "EvictStoreChecksum"]
    /\ UNCHANGED <<side, host, MetadataBuffer, RadianceCachingBuffer, VisualizationBuffer>>

\* line 410
EvictStoreChecksum(t) ==
    LET th == threads[t] IN
    /\ th.pc = "EvictStoreChecksum"
    /\ MetadataBuffer' = [MetadataBuffer EXCEPT ![th.HitIndex].Checksum = th.Checksum]
    /\ threads' = [threads EXCEPT ![t].pc = "EvictStoreFrame"]
    /\ UNCHANGED <<side, host, AccumulationBuffer, RadianceCachingBuffer, VisualizationBuffer>>

\* line 411
EvictStoreFrame(t) ==
    LET th == threads[t] IN
    /\ th.pc = "EvictStoreFrame"
    /\ MetadataBuffer' = [MetadataBuffer EXCEPT ![th.HitIndex].Frame = frameNumber]
    /\ threads' = [threads EXCEPT ![t].pc = "EvictClearRadiance"]
    /\ UNCHANGED <<side, host, AccumulationBuffer, RadianceCachingBuffer, VisualizationBuffer>>

\* line 413
EvictClearRadiance(t) ==
    LET th == threads[t] IN
    /\ th.pc = "EvictClearRadiance"
    /\ RadianceCachingBuffer' = [RadianceCachingBuffer EXCEPT ![th.HitIndex] = Zero3]
    /\ threads' = [threads EXCEPT ![t].pc = "AddR"]
    /\ UNCHANGED <<side, host, AccumulationBuffer, MetadataBuffer, VisualizationBuffer>>

\* a rejected write overwriting the resolved entry with its own radiance
RejectOverwrite(t) ==
    LET th == threads[t] IN
    /\ th.pc = "RejectLoadRadiance"
    /\ RadianceCachingBuffer' = [RadianceCachingBuffer EXCEPT ![th.HitIndex] = NewRadiance(th)]
    /\ threads' = [threads EXCEPT ![t] =
          [th EXCEPT !.bSkipAccumulation = TRUE, !.pc = "LoadVisualization"]]
    /\ UNCHANGED <<side, host, AccumulationBuffer, MetadataBuffer, VisualizationBuffer>>

\* lines 419-420
RejectLoadRadiance(t) ==
    LET th == threads[t] IN
    /\ th.pc = "RejectLoadRadiance"
    /\ threads' = [threads EXCEPT ![t] =
          [th EXCEPT !.bSkipAccumulation = TRUE, !.pc = "LoadVisualization"]]
    /\ UNCHANGED <<side, host, buffers>>

\* line 426
ClaimStoreChecksum(t) ==
    LET th == threads[t] IN
    /\ th.pc = "ClaimStoreChecksum"
    /\ MetadataBuffer' = [MetadataBuffer EXCEPT ![th.HitIndex].Checksum = th.Checksum]
    /\ threads' = [threads EXCEPT ![t].pc = "ClaimStoreFrame"]
    /\ UNCHANGED <<side, host, AccumulationBuffer, RadianceCachingBuffer, VisualizationBuffer>>

\* line 427
ClaimStoreFrame(t) ==
    LET th == threads[t] IN
    /\ th.pc = "ClaimStoreFrame"
    /\ MetadataBuffer' = [MetadataBuffer EXCEPT ![th.HitIndex].Frame = frameNumber]
    /\ threads' = [threads EXCEPT ![t].pc = "AddR"]
    /\ UNCHANGED <<side, host, AccumulationBuffer, RadianceCachingBuffer, VisualizationBuffer>>

\* line 432
RefreshStoreFrame(t) ==
    LET th == threads[t] IN
    /\ th.pc = "RefreshStoreFrame"
    /\ MetadataBuffer' = [MetadataBuffer EXCEPT ![th.HitIndex].Frame = frameNumber]
    /\ threads' = [threads EXCEPT ![t].pc = "AddR"]
    /\ UNCHANGED <<side, host, AccumulationBuffer, RadianceCachingBuffer, VisualizationBuffer>>

\* line 443
AddR(t) ==
    LET th == threads[t]
        old == AccumulationBuffer[th.HitIndex].R
    IN
    /\ th.pc = "AddR"
    /\ AccumulationBuffer' = [AccumulationBuffer EXCEPT ![th.HitIndex].R =
          UintAdd(old, ScaledRadiance(NewRadiance(th))[1])]
    /\ threads' = [threads EXCEPT ![t] = [th EXCEPT !.OriginalR = old, !.pc = "AddG"]]
    /\ UNCHANGED <<side, host, MetadataBuffer, RadianceCachingBuffer, VisualizationBuffer>>

\* line 444
AddG(t) ==
    LET th == threads[t]
        old == AccumulationBuffer[th.HitIndex].G
    IN
    /\ th.pc = "AddG"
    /\ AccumulationBuffer' = [AccumulationBuffer EXCEPT ![th.HitIndex].G =
          UintAdd(old, ScaledRadiance(NewRadiance(th))[2])]
    /\ threads' = [threads EXCEPT ![t] = [th EXCEPT !.OriginalG = old, !.pc = "AddB"]]
    /\ UNCHANGED <<side, host, MetadataBuffer, RadianceCachingBuffer, VisualizationBuffer>>

\* line 445
AddB(t) ==
    LET th == threads[t]
        old == AccumulationBuffer[th.HitIndex].B
    IN
    /\ th.pc = "AddB"
    /\ AccumulationBuffer' = [AccumulationBuffer EXCEPT ![th.HitIndex].B =
          UintAdd(old, ScaledRadiance(NewRadiance(th))[3])]
    /\ threads' = [threads EXCEPT ![t] = [th EXCEPT !.OriginalB = old, !.pc = "AddCount"]]
    /\ UNCHANGED <<side, host, MetadataBuffer, RadianceCachingBuffer, VisualizationBuffer>>

\* the count added at the offset of the blue sum
AddCountWrongOffset(t) ==
    LET th == threads[t]
        old == AccumulationBuffer[th.HitIndex].B
    IN
    /\ th.pc = "AddCount"
    /\ AccumulationBuffer' = [AccumulationBuffer EXCEPT ![th.HitIndex].B =
          UintAdd(old, 1)]
    /\ threads' = [threads EXCEPT ![t] =
          [th EXCEPT !.OriginalCount = old, !.pc = "LoadOldRadiance"]]
    /\ UNCHANGED <<side, host, MetadataBuffer, RadianceCachingBuffer, VisualizationBuffer>>

\* line 446
AddCount(t) ==
    LET th == threads[t]
        old == AccumulationBuffer[th.HitIndex].Count
    IN
    /\ th.pc = "AddCount"
    /\ AccumulationBuffer' = [AccumulationBuffer EXCEPT ![th.HitIndex].Count =
          UintAdd(old, 1)]
    /\ threads' = [threads EXCEPT ![t] =
          [th EXCEPT !.OriginalCount = old, !.pc = "LoadOldRadiance"]]
    /\ UNCHANGED <<side, host, MetadataBuffer, RadianceCachingBuffer, VisualizationBuffer>>

\* line 460
LoadOldRadiance(t) ==
    LET th == threads[t] IN
    /\ th.pc = "LoadOldRadiance"
    /\ threads' = [threads EXCEPT ![t] =
          [th EXCEPT !.OldRadiance = RadianceCachingBuffer[th.HitIndex],
                     !.pc = "StoreFinalRadiance"]]
    /\ UNCHANGED <<side, host, buffers>>

\* lines 449-470
StoreFinalRadiance(t) ==
    LET th == threads[t]
        FinalRadiance == BlendedRadiance(th)
    IN
    /\ th.pc = "StoreFinalRadiance"
    /\ RadianceCachingBuffer' = [RadianceCachingBuffer EXCEPT ![th.HitIndex] = FinalRadiance]
    /\ threads' = [threads EXCEPT ![t] =
          [th EXCEPT !.OriginalR = 0, !.OriginalG = 0, !.OriginalB = 0,
                     !.OriginalCount = 0, !.OldRadiance = Zero3,
                     !.pc = "LoadVisualization"]]
    /\ UNCHANGED <<side, host, AccumulationBuffer, MetadataBuffer, VisualizationBuffer>>

\* lines 504-505
LoadVisualization(t) ==
    LET th == threads[t] IN
    /\ th.pc = "LoadVisualization"
    /\ threads' = [threads EXCEPT ![t] =
          [th EXCEPT !.OldDirectRadiance = VisualizationBuffer[th.HitIndex].DirectRadiance,
                     !.OldIndirectRadiance = VisualizationBuffer[th.HitIndex].IndirectRadiance,
                     !.pc = "StoreVisualization"]]
    /\ UNCHANGED <<side, host, buffers>>

\* lines 507-508, and the return
StoreVisualization(t) ==
    LET th == threads[t] IN
    /\ th.pc = "StoreVisualization"
    /\ VisualizationBuffer' = [VisualizationBuffer EXCEPT ![th.HitIndex] =
          [DirectRadiance |->
              Lerp3(th.OldDirectRadiance, th.DirectLight, VisualizationBlend),
           IndirectRadiance |->
              Lerp3(th.OldIndirectRadiance, th.IndirectLight, VisualizationBlend)]]
    /\ threads' = [threads EXCEPT ![t] = DoneThread(th)]
    /\ UNCHANGED <<side, host, AccumulationBuffer, MetadataBuffer, RadianceCachingBuffer>>

Step(t) ==
    \/ LoadChecksum(t)
    \/ LoadFrame(t)
    \/ EvictClearAccumulation(t)
    \/ EvictStoreChecksum(t)
    \/ EvictStoreFrame(t)
    \/ EvictClearRadiance(t)
    \/ RejectLoadRadiance(t)
    \/ ClaimStoreChecksum(t)
    \/ ClaimStoreFrame(t)
    \/ RefreshStoreFrame(t)
    \/ AddR(t)
    \/ AddG(t)
    \/ AddB(t)
    \/ AddCount(t)
    \/ LoadOldRadiance(t)
    \/ StoreFinalRadiance(t)
    \/ LoadVisualization(t)
    \/ StoreVisualization(t)

Next ==
    \/ Dispatch
    \/ Retire
    \/ NextFrame
    \/ CameraMovement
    \/ \E t \in ThreadIds : Step(t)

Spec == Init /\ [][Next]_vars

\* the cache written by one invocation at a time
NextSeq ==
    \/ DispatchOne
    \/ Retire
    \/ NextFrame
    \/ CameraMovement
    \/ \E t \in ThreadIds : Step(t)

SpecSeq == Init /\ [][NextSeq]_vars

(***************************************************************************)
(* Vocabulary of the properties.                                           *)
(***************************************************************************)
\* the invocations of the running dispatch that handle cell i
ThreadsOn(i) == {t \in ThreadIds : threads[t].pc # "idle" /\ threads[t].HitIndex = i}

\* they step when their record changes
Steps(t) == threads'[t] # threads[t]

RECURSIVE SumScaled(_, _)
SumScaled(T, c) ==
    IF T = {} THEN 0
    ELSE LET t == CHOOSE u \in T : TRUE
         IN  ScaledRadiance(NewRadiance(threads[t]))[c] + SumScaled(T \ {t}, c)

\* no invocation on cell i met a collision: none evicted, none was rejected
NoCollisionOn(i) ==
    \A t \in ThreadsOn(i) : threads[t].branch \in {"None", "Claim", "Refresh"}

FirstOwner(i) == CHOOSE c \in claimed[i] : TRUE

SecondWriter(t) ==
    LET th == threads[t]
        i == th.HitIndex
    IN  /\ th.pc # "idle"
        /\ writes = 2
        /\ ThreadsOn(i) = {t}
        /\ Cardinality(claimed[i]) = 1
        /\ ~IsEmpty(FirstOwner(i).Checksum)
        /\ FirstOwner(i).Checksum # th.Checksum

Elapsed(t) == frameNumber - FirstOwner(threads[t].HitIndex).Frame

Early(t) ==
    /\ SecondWriter(t)
    /\ Elapsed(t) >= 0
    /\ Elapsed(t) < RADIANCE_CACHE_COLLISION_EVICT_THRESHOLD

Late(t) ==
    /\ SecondWriter(t)
    /\ Elapsed(t) >= RADIANCE_CACHE_COLLISION_EVICT_THRESHOLD

\* what one contribution alone leaves in a zero entry, and its resolved value
AloneAccumulated(th) ==
    LET c == ScaledRadiance(NewRadiance(th))
    IN  [R |-> c[1], G |-> c[2], B |-> c[3], Count |-> 1]

AloneResolved(th) ==
    LET c == ScaledRadiance(NewRadiance(th))
    IN  <<AccumulatedChannel(c[1], 1), AccumulatedChannel(c[2], 1),
          AccumulatedChannel(c[3], 1)>>

(***************************************************************************)
(* C2  Collision rejection.  A cell was claimed in frame t0 with checksum  *)
(* A; a write with checksum B # A that arrives in frame t0 + k with        *)
(* 0 <= k < RADIANCE_CACHE_COLLISION_EVICT_THRESHOLD leaves the cell's     *)
(* checksum equal to A and does not alter the cell's accumulation entry.   *)
(***************************************************************************)
Rejects(t) ==
    LET i == threads[t].HitIndex
    IN  /\ MetadataBuffer'[i].Checksum = FirstOwner(i).Checksum
        /\ AccumulationBuffer'[i] = AccumulationBuffer[i]

C2_CollisionRejection ==
    [][\A t \in ThreadIds : Early(t) => Rejects(t)]_vars

\* the same, of the builds that compile the collision detection in
C2_RejectionCompiledIn ==
    [][\A t \in ThreadIds : (useCollisionDetection /\ Early(t)) => Rejects(t)]_vars

\* an early second writer has returned, rejected
C2_Rejected ==
    \E t \in ThreadIds :
        /\ Early(t)
        /\ threads[t].pc = "done"
        /\ threads[t].bSkipAccumulation

(***************************************************************************)
(* C3  Eviction.  A cell was claimed in frame t0 with checksum A; a write  *)
(* with checksum B # A that arrives in frame t0 + k with                   *)
(* k >= RADIANCE_CACHE_COLLISION_EVICT_THRESHOLD finds both the            *)
(* accumulation entry and the resolved entry zero when it starts to        *)
(* accumulate, and leaves the cell with checksum B and with B's            *)
(* contribution alone in both entries.                                     *)
(***************************************************************************)
Evicted(t) ==
    LET th == threads[t]
        i == th.HitIndex
    IN  /\ th.pc = "AddR" =>
              /\ AccumulationBuffer[i] = ZeroAccum
              /\ RadianceCachingBuffer[i] = Zero3
        /\ th.pc \in {"AddR", "done"} => MetadataBuffer[i].Checksum = th.Checksum
        /\ th.pc = "done" =>
              /\ AccumulationBuffer[i] = AloneAccumulated(th)
              /\ RadianceCachingBuffer[i] = AloneResolved(th)

C3_Eviction == \A t \in ThreadIds : Late(t) => Evicted(t)

\* the same, of the builds that compile the collision detection in
C3_EvictionCompiledIn ==
    \A t \in ThreadIds : (useCollisionDetection /\ Late(t)) => Evicted(t)

\* a late second writer has returned, having evicted the first owner
C3_EvictedState ==
    \E t \in ThreadIds :
        /\ Late(t)
        /\ threads[t].pc = "done"
        /\ threads[t].branch = "Evict"
        /\ AccumulationBuffer[threads[t].HitIndex].Count = 1

(***************************************************************************)
(* C4  Checksum invariant.  A cell's checksum is 0 exactly when the cell   *)
(* is unclaimed, that is when no write has reached it, and a non-zero      *)
(* checksum changes only in the eviction step of a colliding write; no     *)
(* other step changes it, under any interleaving.                          *)
(***************************************************************************)
Unclaimed(i) == fed[i] = {}

EvictionStepOn(i) ==
    \E t \in ThreadIds :
        /\ threads[t].HitIndex = i
        /\ threads[t].pc = "EvictStoreChecksum"
        /\ Steps(t)

ChecksumStep(i) ==
    (/\ ~IsEmpty(MetadataBuffer[i].Checksum)
     /\ MetadataBuffer'[i].Checksum # MetadataBuffer[i].Checksum) => EvictionStepOn(i)

C4_ClaimedChecksumStable == [][\A i \in Cells : ChecksumStep(i)]_vars

\* the second half alone, one invocation at a time
C4_ClaimedChecksumStableAlone ==
    [][(\A i \in Cells : Cardinality(ThreadsOn(i)) <= 1) =>
          \A i \in Cells : ChecksumStep(i)]_vars

(***************************************************************************)
(* The stages of an invocation: the collision policy and the accumulation  *)
(* (lines 387-446) are the producer's steps, the blend (lines 449-470) is  *)
(* the resolve.                                                            *)
(***************************************************************************)
PolicyPcs ==
    {"LoadChecksum", "LoadFrame", "EvictClearAccumulation", "EvictStoreChecksum",
     "EvictStoreFrame", "EvictClearRadiance", "RejectLoadRadiance",
     "ClaimStoreChecksum", "ClaimStoreFrame", "RefreshStoreFrame"}

AccumulationPcs == {"AddR", "AddG", "AddB", "AddCount"}

ProducerPcs == PolicyPcs \cup AccumulationPcs

ResolvePcs == {"LoadOldRadiance", "StoreFinalRadiance"}

\* the invocation has blended its cell
HasBlended(t) ==
    /\ threads[t].pc \in {"LoadVisualization", "StoreVisualization", "done"}
    /\ ~threads[t].bSkipAccumulation

\* this step zeroes a field of cell i's accumulation entry
Clears(i) ==
    \/ AccumulationBuffer[i].R # 0 /\ AccumulationBuffer'[i].R = 0
    \/ AccumulationBuffer[i].G # 0 /\ AccumulationBuffer'[i].G = 0
    \/ AccumulationBuffer[i].B # 0 /\ AccumulationBuffer'[i].B = 0
    \/ AccumulationBuffer[i].Count # 0 /\ AccumulationBuffer'[i].Count = 0

StepAt(t, pcs) == Steps(t) /\ threads[t].pc \in pcs

EvictionClears(t) ==
    LET i == threads[t].HitIndex
    IN  /\ StepAt(t, {"EvictClearAccumulation", "EvictClearRadiance"})
        /\ threads[t].branch = "Evict"
        /\ \A j \in Cells \ {i} :
              /\ RadianceCachingBuffer'[j] = RadianceCachingBuffer[j]
              /\ AccumulationBuffer'[j] = AccumulationBuffer[j]
        /\ RadianceCachingBuffer'[i] \in {RadianceCachingBuffer[i], Zero3}
        /\ AccumulationBuffer'[i] \in {AccumulationBuffer[i], ZeroAccum}

Table == [Accumulation |-> AccumulationBuffer, Metadata |-> MetadataBuffer,
          Radiance |-> RadianceCachingBuffer]

RunCS(tab, th, CurrentFrame) ==
    LET i == th.HitIndex
        meta == tab.Metadata[i]
        branch == IF useCollisionDetection
                  THEN PolicyBranch(meta.Checksum, meta.Frame, th.Checksum, CurrentFrame)
                  ELSE "None"
        Metadata1 ==
            IF branch \in {"Evict", "Claim"}
            THEN [Checksum |-> th.Checksum, Frame |-> CurrentFrame]
            ELSE IF branch = "Refresh"
                 THEN [meta EXCEPT !.Frame = CurrentFrame]
                 ELSE meta
        Original == IF branch = "Evict" THEN ZeroAccum ELSE tab.Accumulation[i]
        OldRadiance == IF branch = "Evict" THEN Zero3 ELSE tab.Radiance[i]
        Scaled == ScaledRadiance(NewRadiance(th))
        Accumulation1 ==
            [R |-> UintAdd(Original.R, Scaled[1]), G |-> UintAdd(Original.G, Scaled[2]),
             B |-> UintAdd(Original.B, Scaled[3]), Count |-> UintAdd(Original.Count, 1)]
        FinalRadiance ==
            BlendedRadiance([th EXCEPT !.OriginalR = Original.R, !.OriginalG = Original.G,
                                       !.OriginalB = Original.B,
                                       !.OriginalCount = Original.Count,
                                       !.OldRadiance = OldRadiance])
    IN  IF branch = "Reject"
        THEN tab
        ELSE [Accumulation |-> [tab.Accumulation EXCEPT ![i] = Accumulation1],
              Metadata |-> [tab.Metadata EXCEPT ![i] = Metadata1],
              Radiance |-> [tab.Radiance EXCEPT ![i] = FinalRadiance]]

Min(S) == CHOOSE x \in S : \A y \in S : x <= y

RECURSIVE RunInOrder(_, _, _)
RunInOrder(tab, T, CurrentFrame) ==
    IF T = {} THEN tab
    ELSE LET t == Min(T)
         IN  RunInOrder(RunCS(tab, threads[t], CurrentFrame), T \ {t}, CurrentFrame)

StartTable == [Accumulation |-> dispatchStart.Accumulation,
               Metadata |-> dispatchStart.Metadata,
               Radiance |-> dispatchStart.Radiance]

Dispatched == {t \in ThreadIds : threads[t].pc # "idle"}

C6_AccumulationDeterminism ==
    (Completed /\ ~useCollisionDetection) =>
        AccumulationBuffer = RunInOrder(StartTable, Dispatched, frameNumber).Accumulation

BlendsOnce(t) ==
    \A u \in ThreadsOn(threads[t].HitIndex) \ {t} : ~HasBlended(u)

BlendsOccupied(t) == AccumulationBuffer[threads[t].HitIndex].Count > 0

C8_BlendsOccupiedAlone ==
    [][\A t \in ThreadIds :
          (StepAt(t, {"StoreFinalRadiance"}) /\ ThreadsOn(threads[t].HitIndex) = {t})
              => BlendsOccupied(t)]_vars

(***************************************************************************)
(* C9  Convergence law.  When one constant contribution C is all that is   *)
(* ever fed to an initially empty cell, one write at a time, the resolved  *)
(* entry equals C exactly once the first write has returned, and after     *)
(* every later write; it never exceeds C in between.                       *)
(***************************************************************************)
OnlyFed(i, s) == fed[i] = {s}

AtRest == \A t \in ThreadIds : threads[t].pc \in {"idle", "done"}

NoOvershoot(radiance, target) ==
    \A c \in 1 .. 3 : RLeq(radiance[c], target[c])

C10_ClearedAfterResolve ==
    /\ Completed =>
          \A t \in ThreadIds :
              HasBlended(t) => AccumulationBuffer[threads[t].HitIndex] = ZeroAccum
    /\ (Quiescent \/ Completed) => dispatchStart.Accumulation = [i \in Cells |-> ZeroAccum]

(***************************************************************************)
(* The life of one entry of AccumulationBuffer at its full width.  CS      *)
(* never clears the sums (lines 443-446 only add, line 408 zeroes them on  *)
(* an eviction), so an entry holds the sum of every contribution made to   *)
(* the cell since it was claimed.  The entry starts as n earlier writes of *)
(* one surface left it and is then written one invocation at a time.       *)
(***************************************************************************)
MaxLifetimeWrites == 3

\* numbers of earlier writes: a young cell, and a cell written once per
\* frame for about 2^22 frames
LifetimeHistories == (0 .. 3) \cup (4194300 .. 4194304)

Scaled32(s) ==
    LET Scaled == ScaledRadiance(NewRadiance(s))
    IN  [R |-> U32(Scaled[1]), G |-> U32(Scaled[2]), B |-> U32(Scaled[3]),
         Count |-> U32(1)]

\* the entry after n writes of the surface s
After32(n, s) ==
    LET Scaled == ScaledRadiance(NewRadiance(s))
    IN  [R |-> U32Scale(U32(n), Scaled[1]), G |-> U32Scale(U32(n), Scaled[2]),
         B |-> U32Scale(U32(n), Scaled[3]), Count |-> U32(n)]

InitLifetime ==
    /\ InitCache
    /\ \E n \in LifetimeHistories, s \in Surfaces : Accumulation32 = After32(n, s)
    /\ writes32 = 0
    /\ InitProbe
    /\ sinceReset = <<>>
    /\ hash = NoHash
    /\ InitTools

\* lines 443-446: the four InterlockedAdd calls of one invocation
Accumulate32(s) ==
    /\ writes32 < MaxLifetimeWrites
    /\ Accumulation32' =
           [R |-> U32Add(Accumulation32.R, Scaled32(s).R),
            G |-> U32Add(Accumulation32.G, Scaled32(s).G),
            B |-> U32Add(Accumulation32.B, Scaled32(s).B),
            Count |-> U32Add(Accumulation32.Count, Scaled32(s).Count)]
    /\ writes32' = writes32 + 1
    /\ UNCHANGED <<probe, host, buffers, threads, sinceReset, hash, tools>>

\* line 408: the Store4 of an eviction, the one clear of the sums
EvictClear32 ==
    /\ useCollisionDetection
    /\ writes32 < MaxLifetimeWrites
    /\ Accumulation32' = ZeroAccum32
    /\ writes32' = writes32 + 1
    /\ UNCHANGED <<probe, host, buffers, threads, sinceReset, hash, tools>>

Accumulates32 == \E s \in Surfaces : Accumulate32(s)

NextLifetime ==
    \/ Accumulates32
    \/ EvictClear32

SpecLifetime == InitLifetime /\ [][NextLifetime]_vars

Fields32 == {"R", "G", "B", "Count"}

\* C11: the four fields of an accumulation entry are non-negative and no
\* field ever decreases, a wraparound of its 32 bits included, other than
\* by the clear of the entry.
C11_NeverDecreases ==
    [][Accumulates32 =>
          \A f \in Fields32 :
             /\ U32Leq(U32(0), Accumulation32'[f])
             /\ U32Leq(Accumulation32[f], Accumulation32'[f])]_vars

\* C11 within the sums the concurrent model reaches: every step other than
\* the Store4 of an eviction leaves each field of each entry at least as
\* large as it was.
C11_NeverDecreasesBelowWrap ==
    [][\A i \in Cells :
          \/ \E t \in ThreadIds : threads[t].pc = "EvictClearAccumulation" /\ Steps(t)
          \/ /\ AccumulationBuffer'[i].R >= AccumulationBuffer[i].R
             /\ AccumulationBuffer'[i].G >= AccumulationBuffer[i].G
             /\ AccumulationBuffer'[i].B >= AccumulationBuffer[i].B
             /\ AccumulationBuffer'[i].Count >= AccumulationBuffer[i].Count
             /\ AccumulationBuffer'[i].R >= 0
             /\ AccumulationBuffer'[i].Count >= 0]_vars

\* a field of the entry has wrapped: it is smaller than a contribution
\* just added to it
C11_Wrapped ==
    /\ writes32 = 1
    /\ ~U32Leq(U32(RADIANCE_CACHE_RADIANCE_SCALE), Accumulation32.R)
    /\ U32Leq(U32(4194304), Accumulation32.Count)

(***************************************************************************)
(* C12  First-write blend.  A resolve of a cell uses the blend factor 1.0  *)
(* when the cell's resolved entry was all zero and its checksum Empty      *)
(* before this time step, and the resolved value is then the mean of this  *)
(* step's contributions, with no history mixed in.  The case is taken      *)
(* where it is beyond doubt: the running dispatch holds every write made   *)
(* so far, so the table was zero before the time step.                     *)
(***************************************************************************)
Running == {t \in ThreadIds : threads[t].pc # "idle"}

FirstWriteOf(i) ==
    /\ writes = Cardinality(Running)
    /\ ThreadsOn(i) = Running
    /\ dispatchStart.Radiance[i] = Zero3
    /\ IsEmpty(dispatchStart.Metadata[i].Checksum)

\* the blend factor of line 461-467 from the count the invocation got back
BlendFactorUsed(th) == BlendFactor(SampleCountOf(UintAdd(th.OriginalCount, 1)))

\* the mean of the contributions of the invocations T, as they are accumulated
MeanOf(T) ==
    <<Rat(SumScaled(T, 1), RADIANCE_CACHE_RADIANCE_SCALE * Cardinality(T)),
      Rat(SumScaled(T, 2), RADIANCE_CACHE_RADIANCE_SCALE * Cardinality(T)),
      Rat(SumScaled(T, 3), RADIANCE_CACHE_RADIANCE_SCALE * Cardinality(T))>>

C12_FirstWriteBlendAlone ==
    [][\A i \in Cells :
          (FirstWriteOf(i) /\ Cardinality(ThreadsOn(i)) = 1) =>
             /\ \A t \in ThreadsOn(i) :
                   StepAt(t, {"StoreFinalRadiance"}) => BlendFactorUsed(threads[t]) = One
             /\ (Completed' /\ NoCollisionOn(i))
                   => RadianceCachingBuffer'[i] = MeanOf(ThreadsOn(i))]_vars

(***************************************************************************)
(* C13  The count behind the blend factor 1 / min(count, MaxAccumulated-   *)
(* Samples) is a saturating counter of the cell: a time step in which the  *)
(* cell is written raises it by one, however many contributions the step   *)
(* brings, and it never exceeds RADIANCE_CACHE_MAX_ACCUMULATED_SAMPLES.    *)
(* The count the code uses is the Count of the accumulation entry (lines   *)
(* 446-461); a dispatch lies within one time step.                         *)
(***************************************************************************)
CountLifetime(i) == AccumulationBuffer[i].Count

C13_CounterAlone ==
    Completed =>
        \A i \in Cells :
            (Cardinality(ThreadsOn(i)) = 1 /\ NoCollisionOn(i)) =>
                CountLifetime(i) = dispatchStart.Accumulation[i].Count + 1

(***************************************************************************)
(* C14  Eviction is deferred while the owner is active.  The owner of a    *)
(* cell is its stored checksum.  While the owner wrote the cell fewer than *)
(* RADIANCE_CACHE_COLLISION_EVICT_THRESHOLD time steps ago, no step of a   *)
(* colliding write (an invocation with another checksum) changes the       *)
(* cell's checksum or its resolved entry: the cell is not evicted and the  *)
(* owner keeps its history.                                                *)
(***************************************************************************)
OwnerOf(i) == MetadataBuffer[i].Checksum

\* an invocation with the owner's checksum is writing the cell in the
\* running dispatch, as its owner
OwnerWritesNow(i) ==
    \E u \in ThreadsOn(i) :
        /\ threads[u].Checksum = OwnerOf(i)
        /\ threads[u].branch \in {"Claim", "Refresh", "Evict"}
        /\ threads[u].pc \notin {"ClaimStoreChecksum", "EvictClearAccumulation",
                                 "EvictStoreChecksum"}

\* time steps since the owner last wrote the cell
SinceOwnerWrote(i) ==
    IF OwnerWritesNow(i) THEN 0 ELSE frameNumber - MetadataBuffer[i].Frame

OwnerActive(i) ==
    /\ ~IsEmpty(OwnerOf(i))
    /\ SinceOwnerWrote(i) < RADIANCE_CACHE_COLLISION_EVICT_THRESHOLD

KeepsOwner(i) ==
    /\ MetadataBuffer'[i].Checksum = MetadataBuffer[i].Checksum
    /\ RadianceCachingBuffer'[i] = RadianceCachingBuffer[i]

C14_EvictionDeferred ==
    [][\A i \in Cells : \A t \in ThreadsOn(i) :
          (OwnerActive(i) /\ threads[t].Checksum # OwnerOf(i) /\ Steps(t))
              => KeepsOwner(i)]_vars

\* C14 while the frame counter has not been set back since the owner wrote
C14_EvictionDeferredForward ==
    [][\A i \in Cells : \A t \in ThreadsOn(i) :
          (/\ OwnerActive(i)
           /\ MetadataBuffer[i].Frame <= frameNumber
           /\ threads[t].Checksum # OwnerOf(i)
           /\ Steps(t))
              => KeepsOwner(i)]_vars

(***************************************************************************)
(* The scenario of C15: one cell, one invocation per time step.  Key A     *)
(* contributes (1,0,0) in time step 1 and the colliding key B contributes  *)
(* (0,1,0) in every time step from step 2 on.                              *)
(***************************************************************************)
ScenarioSteps == 6

Green == <<Zero, One, Zero>>

KeyA == [Checksum |-> 1, DirectLight |-> Red, IndirectLight |-> Zero3]
KeyB == [Checksum |-> 2, DirectLight |-> Green, IndirectLight |-> Zero3]

ScenarioInput == IF frameNumber = 1 THEN KeyA ELSE KeyB

\* the dispatch of the time step: one invocation on cell 0
ScenarioWrite ==
    /\ Quiescent
    /\ writes = frameNumber - 1
    /\ threads' = [t \in ThreadIds |->
                      IF t = 1 THEN NewThread(0, ScenarioInput) ELSE IdleThread]
    /\ fed' = [fed EXCEPT ![0] = fed[0] \cup {ScenarioInput}]
    /\ claimed' = [claimed EXCEPT ![0] =
                      IF fed[0] # {} THEN claimed[0]
                      ELSE {[Checksum |-> ScenarioInput.Checksum, Frame |-> frameNumber]}]
    /\ writes' = writes + 1
    /\ dispatchStart' = Snapshot
    /\ UNCHANGED <<side, frameNumber, useCollisionDetection, buffers>>

\* the next time step, once the write of this one is done
ScenarioNextFrame ==
    /\ Quiescent
    /\ writes = frameNumber
    /\ frameNumber < ScenarioSteps
    /\ frameNumber' = frameNumber + 1
    /\ UNCHANGED <<side, useCollisionDetection, buffers, threads, writes, dispatchStart,
                   fed, claimed>>

ScenarioStep == \E t \in ThreadIds : Step(t)

NextScenario ==
    \/ ScenarioWrite
    \/ ScenarioStep
    \/ Retire
    \/ ScenarioNextFrame

SpecScenario == Init /\ [][NextScenario]_vars

\* the write of time step n is done and no other has begun
AfterStep(n) == Quiescent /\ frameNumber = n /\ writes = n

\* C15: in the scenario (evictThreshold 4) the resolved value is (1,0,0)
\* after time step 1; by time step 6 the cell has been evicted for key B,
\* nothing of A's history is left in the resolved value and it has moved
\* toward (0,1,0).
C15_Scenario ==
    /\ AfterStep(1) => RadianceCachingBuffer[0] = Red
    /\ AfterStep(ScenarioSteps) =>
          /\ MetadataBuffer[0].Checksum = KeyB.Checksum
          /\ RadianceCachingBuffer[0][1] = Zero
          /\ RLeq(Rat(1, 2), RadianceCachingBuffer[0][2])

\* C15 in the build that compiles the collision policy in
C15_ScenarioCompiledIn == useCollisionDetection => C15_Scenario

\* in that build the eviction takes place in time step 5
C15_EvictedInStepFive ==
    /\ useCollisionDetection
    /\ AfterStep(5)
    /\ MetadataBuffer[0] = [Checksum |-> KeyB.Checksum, Frame |-> 5]
    /\ RadianceCachingBuffer[0] = Green

(***************************************************************************)
(* C16  Claim.  A write with checksum X to a cell whose checksum is Empty  *)
(* sets the checksum to X and the last write time to the current time      *)
(* step, and its contribution is then accumulated into the cell.  The      *)
(* write is taken alone on its cell, the cell Empty when it started.       *)
(***************************************************************************)
LoneWriter(t) ==
    /\ threads[t].pc = "done"
    /\ ThreadsOn(threads[t].HitIndex) = {t}

Accumulated(t) ==
    LET i == threads[t].HitIndex
        a0 == dispatchStart.Accumulation[i]
        c == AloneAccumulated(threads[t])
    IN  AccumulationBuffer[i] =
            [R |-> a0.R + c.R, G |-> a0.G + c.G, B |-> a0.B + c.B,
             Count |-> a0.Count + 1]

Claimed(t) ==
    MetadataBuffer[threads[t].HitIndex] =
        [Checksum |-> threads[t].Checksum, Frame |-> frameNumber]

C16_Claim ==
    \A t \in ThreadIds :
        (LoneWriter(t) /\ IsEmpty(dispatchStart.Metadata[threads[t].HitIndex].Checksum))
            => Claimed(t) /\ Accumulated(t)

\* C16 in the build that compiles the collision policy in
C16_ClaimCompiledIn == useCollisionDetection => C16_Claim

\* a lone write has claimed an Empty cell and added its contribution
C16_ClaimedState ==
    \E t \in ThreadIds :
        /\ LoneWriter(t)
        /\ IsEmpty(dispatchStart.Metadata[threads[t].HitIndex].Checksum)
        /\ threads[t].branch = "Claim"
        /\ Claimed(t)
        /\ Accumulated(t)

(***************************************************************************)
(* C17  Refresh.  A write whose checksum equals the checksum the cell was  *)
(* claimed with sets the last write time to the current time step, leaves  *)
(* the checksum as it is, and its contribution is then accumulated.  The   *)
(* cell received one lone write with a non-zero checksum X (which the      *)
(* policy is to turn into the claim); the second write, alone, brings X    *)
(* again.                                                                  *)
(***************************************************************************)
SameKeyWriter(t) ==
    LET th == threads[t]
        i == th.HitIndex
    IN  /\ LoneWriter(t)
        /\ writes = 2
        /\ Cardinality(claimed[i]) = 1
        /\ ~IsEmpty(FirstOwner(i).Checksum)
        /\ FirstOwner(i).Checksum = th.Checksum

C17_Refresh ==
    \A t \in ThreadIds : SameKeyWriter(t) => Claimed(t) /\ Accumulated(t)

\* C17 in the build that compiles the collision policy in
C17_RefreshCompiledIn == useCollisionDetection => C17_Refresh

\* a second write of the owner's key has refreshed the cell in a later frame
C17_RefreshedState ==
    \E t \in ThreadIds :
        /\ SameKeyWriter(t)
        /\ threads[t].branch = "Refresh"
        /\ FirstOwner(threads[t].HitIndex).Frame < frameNumber
        /\ Claimed(t)
        /\ Accumulated(t)

(***************************************************************************)
(* C18  The collision policy is invoked once per write, before the         *)
(* accumulation: an invocation that adds to an accumulation entry has      *)
(* before, in the same write, taken a policy decision on the cell's        *)
(* metadata with the outcome Claim, Refresh or Evict; none adds without a  *)
(* decision or after a Reject.                                             *)
(***************************************************************************)
Decided(t) == threads[t].branch \in {"Claim", "Refresh", "Evict"}

C18_PolicyBeforeAccumulation ==
    [][\A t \in ThreadIds : StepAt(t, AccumulationPcs) => Decided(t)]_vars

\* C18 in the build that compiles the collision policy in
C18_PolicyCompiledIn ==
    [][\A t \in ThreadIds :
          (useCollisionDetection /\ StepAt(t, AccumulationPcs)) => Decided(t)]_vars

\* a rejected invocation has returned without having added anything
C18_RejectedState ==
    \E t \in ThreadIds :
        /\ LoneWriter(t)
        /\ threads[t].branch = "Reject"
        /\ AccumulationBuffer[threads[t].HitIndex]
              = dispatchStart.Accumulation[threads[t].HitIndex]

(***************************************************************************)
(* The probe rays of one time step: ProbeTraceCS records for each ray the  *)
(* cell its hit falls into, ProbeRayResolveCS then hands the cell's cached *)
(* radiance to the ray's texel of RayData.  The rays are the volume's      *)
(* blended rays; a fixed ray is recorded with the sentinel (ProbeTraceCS   *)
(* line 107) like a backface hit.  The stores to RayData are calls into    *)
(* the DDGI SDK and are kept as what was stored: kind, radiance, distance. *)
(***************************************************************************)
PROBE_RAY_HIT_MAP_INVALID == <<Limb - 1, Limb - 1>>

\* asuint and asfloat on the hit distances of the model: the IEEE 754
\* single-precision patterns of 0.5, 1.0 and 2.0
FloatBits == {<<Rat(1, 2), 1056964608>>, <<One, 1065353216>>, <<Rat(2, 1), 1073741824>>}

asuint(x) == (CHOOSE e \in FloatBits : e[1] = x)[2]

asfloat(bits) == (CHOOSE e \in FloatBits : e[2] = bits)[1]

HitDistances == {One, Rat(2, 1)}

skyRadiance == <<Zero, Zero, One>>

U32ToIndex(h) == h[1] * Limb + h[2]

\* the cache after one lone invocation of CS on a zero table in frame 1,
\* and the zero table itself
ZeroTable ==
    [Accumulation |-> [i \in Cells |-> ZeroAccum],
     Metadata |-> [i \in Cells |-> ZeroMeta],
     Radiance |-> [i \in Cells |-> Zero3]]

WrittenTables ==
    {ZeroTable} \cup {RunCS(ZeroTable, NewThread(i, s), 1) : i \in Cells, s \in Surfaces}

InitScatter ==
    /\ frameNumber = 1
    /\ useCollisionDetection \in BOOLEAN
    /\ \E tab \in WrittenTables :
          /\ AccumulationBuffer = tab.Accumulation
          /\ MetadataBuffer = tab.Metadata
          /\ RadianceCachingBuffer = tab.Radiance
          /\ VisualizationBuffer = [i \in Cells |->
                IF tab.Accumulation[i] = ZeroAccum THEN ZeroVis
                ELSE LET s == CHOOSE r \in Surfaces :
                                  tab = RunCS(ZeroTable, NewThread(i, r), 1)
                     IN  [DirectRadiance |-> Lerp3(Zero3, s.DirectLight, VisualizationBlend),
                          IndirectRadiance |-> Lerp3(Zero3, s.IndirectLight, VisualizationBlend)]]
    /\ threads = [t \in ThreadIds |-> IdleThread]
    /\ writes = 0
    /\ dispatchStart = Snapshot
    /\ fed = [i \in Cells |-> {}]
    /\ claimed = [i \in Cells |-> {}]
    /\ InitEntry32
    /\ InitProbe
    /\ sinceReset = <<>>
    /\ hash = NoHash
    /\ InitTools

cache == <<host, buffers, threads, lifetime, sinceReset, hash, tools>>

\* ProbeTraceCS lines 131-136: the ray missed
ProbeTraceMiss(q) ==
    /\ rays[q].pc = "untraced"
    /\ RayData' = [RayData EXCEPT ![q] =
          [Kind |-> "miss", Radiance |-> skyRadiance, Distance |-> Zero]]
    /\ ProbeRayHitMapBuffer' = [ProbeRayHitMapBuffer EXCEPT ![q] =
          [HashID |-> PROBE_RAY_HIT_MAP_INVALID, HitDistance |-> 0]]
    /\ rays' = [rays EXCEPT ![q].pc = "traced"]
    /\ UNCHANGED <<cache, HitCachingBuffer, scatterPass, firstRayData>>

\* ProbeTraceCS lines 93-99: the ray hit a backface
ProbeTraceBackface(q) ==
    /\ rays[q].pc = "untraced"
    /\ \E RayDistance \in HitDistances :
          RayData' = [RayData EXCEPT ![q] =
              [Kind |-> "backface", Radiance |-> Zero3, Distance |-> RayDistance]]
    /\ ProbeRayHitMapBuffer' = [ProbeRayHitMapBuffer EXCEPT ![q] =
          [HashID |-> PROBE_RAY_HIT_MAP_INVALID, HitDistance |-> 0]]
    /\ rays' = [rays EXCEPT ![q].pc = "traced"]
    /\ UNCHANGED <<cache, HitCachingBuffer, scatterPass, firstRayData>>

\* ProbeTraceCS lines 101-109: a fixed ray hit a front face; only its
\* distance is stored
ProbeTraceFixed(q) ==
    /\ rays[q].pc = "untraced"
    /\ \E RayDistance \in HitDistances :
          RayData' = [RayData EXCEPT ![q] =
              [Kind |-> "fixed", Radiance |-> Zero3, Distance |-> RayDistance]]
    /\ ProbeRayHitMapBuffer' = [ProbeRayHitMapBuffer EXCEPT ![q] =
          [HashID |-> PROBE_RAY_HIT_MAP_INVALID, HitDistance |-> 0]]
    /\ rays' = [rays EXCEPT ![q].pc = "traced"]
    /\ UNCHANGED <<cache, HitCachingBuffer, scatterPass, firstRayData>>

\* a trace that stores a texel for a ray it records against a cell
ProbeTraceHitStoring(q) ==
    /\ rays[q].pc = "untraced"
    /\ \E HashID \in Cells, RayDistance \in HitDistances :
          /\ HitCachingBuffer' = [HitCachingBuffer EXCEPT ![HashID] =
                [ProbeRayIndex |-> q, HitDistance |-> RayDistance]]
          /\ ProbeRayHitMapBuffer' = [ProbeRayHitMapBuffer EXCEPT ![q] =
                [HashID |-> U32(HashID), HitDistance |-> asuint(RayDistance)]]
          /\ RayData' = [RayData EXCEPT ![q] =
                [Kind |-> "frontface", Radiance |-> Zero3, Distance |-> RayDistance]]
    /\ rays' = [rays EXCEPT ![q].pc = "traced"]
    /\ UNCHANGED <<cache, scatterPass, firstRayData>>

\* ProbeTraceCS lines 111-125: the ray hit a front face that lies in cell
\* HashID.  The record is several words wide and line 125 is a plain store,
\* so the words reach the cell one after the other: here the word holding
\* the ray's indices.
ProbeTraceHit(q) ==
    /\ rays[q].pc = "untraced"
    /\ \E HashID \in Cells, RayDistance \in HitDistances :
          /\ HitCachingBuffer' = [HitCachingBuffer EXCEPT ![HashID].ProbeRayIndex = q]
          /\ rays' = [rays EXCEPT ![q] =
                [IdleRay EXCEPT !.pc = "StoreHitDistance",
                                !.HashID = U32(HashID),
                                !.HitDistance = RayDistance]]
    /\ UNCHANGED <<cache, ProbeRayHitMapBuffer, RayData, scatterPass, firstRayData>>

\* ProbeTraceCS lines 125-129: the rest of the record reaches the cell, then
\* HashID and the ray's own hit distance are stored for the resolve pass
ProbeTraceHitDistance(q) ==
    LET HashID == rays[q].HashID
        RayDistance == rays[q].HitDistance IN
    /\ rays[q].pc = "StoreHitDistance"
    /\ HitCachingBuffer' =
          [HitCachingBuffer EXCEPT ![U32ToIndex(HashID)].HitDistance = RayDistance]
    /\ ProbeRayHitMapBuffer' = [ProbeRayHitMapBuffer EXCEPT ![q] =
          [HashID |-> HashID, HitDistance |-> asuint(RayDistance)]]
    /\ rays' = [rays EXCEPT ![q] = [IdleRay EXCEPT !.pc = "traced"]]
    /\ UNCHANGED <<cache, RayData, scatterPass, firstRayData>>

AllRays(pc) == \A q \in Rays : rays[q].pc = pc

\* the host dispatches ProbeRayResolveCS over the rays, after ProbeTraceCS
\* and after an earlier dispatch of it has completed
ResolveDispatch ==
    /\ AllRays("traced") \/ AllRays("resolved")
    /\ scatterPass < MaxScatterPasses
    /\ scatterPass' = scatterPass + 1
    /\ firstRayData' = IF scatterPass = 1 THEN RayData ELSE firstRayData
    /\ rays' = [q \in Rays |-> [IdleRay EXCEPT !.pc = "LoadHitMap"]]
    /\ UNCHANGED <<cache, HitCachingBuffer, ProbeRayHitMapBuffer, RayData>>

\* the sentinel is taken for cell 0
ResolveLoadHitMapNoSentinel(q) ==
    LET HitMapData == ProbeRayHitMapBuffer[q] IN
    /\ rays[q].pc = "LoadHitMap"
    /\ rays' = [rays EXCEPT ![q] =
          [IdleRay EXCEPT !.pc = "LoadRadiance",
                          !.HashID = IF HitMapData.HashID = PROBE_RAY_HIT_MAP_INVALID
                                     THEN U32(0) ELSE HitMapData.HashID,
                          !.HitDistance = IF HitMapData.HashID = PROBE_RAY_HIT_MAP_INVALID
                                          THEN Zero ELSE asfloat(HitMapData.HitDistance)]]
    /\ UNCHANGED <<cache, HitCachingBuffer, ProbeRayHitMapBuffer, RayData, scatterPass,
                   firstRayData>>

\* ProbeRayResolveCS lines 77-90: a fixed ray returns at line 78 and is
\* recorded with the sentinel by ProbeTraceCS, so it returns here as well
ResolveLoadHitMap(q) ==
    LET HitMapData == ProbeRayHitMapBuffer[q] IN
    /\ rays[q].pc = "LoadHitMap"
    /\ rays' = [rays EXCEPT ![q] =
          IF HitMapData.HashID = PROBE_RAY_HIT_MAP_INVALID
          THEN [IdleRay EXCEPT !.pc = "resolved"]
          ELSE [IdleRay EXCEPT !.pc = "LoadRadiance", !.HashID = HitMapData.HashID,
                               !.HitDistance = asfloat(HitMapData.HitDistance)]]
    /\ UNCHANGED <<cache, HitCachingBuffer, ProbeRayHitMapBuffer, RayData, scatterPass,
                   firstRayData>>

\* ProbeRayResolveCS lines 94-99: the load, and the assignment after it
ResolveLoadRadiance(q) ==
    LET Loaded == RadianceCachingBuffer[U32ToIndex(rays[q].HashID)]
        CachedRadiance == <<Rat(1, 2), Rat(1, 2), Rat(1, 2)>>
    IN
    /\ rays[q].pc = "LoadRadiance"
    /\ rays' = [rays EXCEPT ![q].CachedRadiance = CachedRadiance,
                            ![q].pc = "StoreRayData"]
    /\ UNCHANGED <<cache, HitCachingBuffer, ProbeRayHitMapBuffer, RayData, scatterPass,
                   firstRayData>>

Saturate3(v) == <<Saturate(v[1]), Saturate(v[2]), Saturate(v[3])>>

\* the store adds to the texel instead of replacing it
ResolveStoreRayDataAdding(q) ==
    /\ rays[q].pc = "StoreRayData"
    /\ RayData' = [RayData EXCEPT ![q] =
          [Kind |-> "frontface",
           Radiance |-> Add3(RayData[q].Radiance, Saturate3(rays[q].CachedRadiance)),
           Distance |-> rays[q].HitDistance]]
    /\ rays' = [rays EXCEPT ![q] = [IdleRay EXCEPT !.pc = "resolved"]]
    /\ UNCHANGED <<cache, HitCachingBuffer, ProbeRayHitMapBuffer, scatterPass, firstRayData>>

\* the store also zeroes the cache entry it delivered
ResolveStoreRayDataConsuming(q) ==
    /\ rays[q].pc = "StoreRayData"
    /\ RayData' = [RayData EXCEPT ![q] =
          [Kind |-> "frontface", Radiance |-> Saturate3(rays[q].CachedRadiance),
           Distance |-> rays[q].HitDistance]]
    /\ RadianceCachingBuffer' =
          [RadianceCachingBuffer EXCEPT ![U32ToIndex(rays[q].HashID)] = Zero3]
    /\ rays' = [rays EXCEPT ![q] = [IdleRay EXCEPT !.pc = "resolved"]]
    /\ UNCHANGED <<host, threads, lifetime, sinceReset, hash, tools, AccumulationBuffer, MetadataBuffer,
                   VisualizationBuffer, HitCachingBuffer, ProbeRayHitMapBuffer,
                   scatterPass, firstRayData>>

\* ProbeRayResolveCS line 108
ResolveStoreRayData(q) ==
    /\ rays[q].pc = "StoreRayData"
    /\ RayData' = [RayData EXCEPT ![q] =
          [Kind |-> "frontface", Radiance |-> Saturate3(rays[q].CachedRadiance),
           Distance |-> rays[q].HitDistance]]
    /\ rays' = [rays EXCEPT ![q] = [IdleRay EXCEPT !.pc = "resolved"]]
    /\ UNCHANGED <<cache, HitCachingBuffer, ProbeRayHitMapBuffer, scatterPass, firstRayData>>

RayStep(q) ==
    \/ ProbeTraceMiss(q)
    \/ ProbeTraceBackface(q)
    \/ ProbeTraceFixed(q)
    \/ ProbeTraceHit(q)
    \/ ProbeTraceHitDistance(q)
    \/ ResolveLoadHitMap(q)
    \/ ResolveLoadRadiance(q)
    \/ ResolveStoreRayData(q)

RaySteps == \E q \in Rays : RayStep(q)

NextScatter ==
    \/ RaySteps
    \/ ResolveDispatch

SpecScatter == InitScatter /\ [][NextScatter]_vars

\* the rays with a cache dependency: their recorded HashID is not the sentinel
Recorded(q) == ProbeRayHitMapBuffer[q].HashID # PROBE_RAY_HIT_MAP_INVALID

Scattered == scatterPass >= 1 /\ AllRays("resolved")

\* C19: after the scatter every recorded probe ray whose HashID is not the
\* sentinel holds exactly the resolved radiance stored at its HashID,
\* together with its own hit distance; rays recorded against the same
\* HashID therefore hold the same radiance.
C19_ScatterDelivery ==
    Scattered =>
        \A q \in Rays :
            Recorded(q) =>
                /\ RayData[q].Radiance =
                       RadianceCachingBuffer[U32ToIndex(ProbeRayHitMapBuffer[q].HashID)]
                /\ RayData[q].Distance = asfloat(ProbeRayHitMapBuffer[q].HitDistance)

\* C19 without the radiance: each recorded ray holds its own hit distance,
\* and rays recorded against the same HashID hold the same radiance
C19_OwnDistanceSameRadiance ==
    Scattered =>
        \A q, r \in Rays :
            (Recorded(q) /\ Recorded(r)) =>
                /\ RayData[q].Kind = "frontface"
                /\ RayData[q].Distance = asfloat(ProbeRayHitMapBuffer[q].HitDistance)
                /\ ProbeRayHitMapBuffer[q].HashID = ProbeRayHitMapBuffer[r].HashID
                      => RayData[q].Radiance = RayData[r].Radiance

\* two rays with different hit distances were recorded against a written cell
C19_TwoRaysOneCell ==
    /\ Scattered
    /\ \E q, r \in Rays :
          /\ Recorded(q) /\ Recorded(r)
          /\ ProbeRayHitMapBuffer[q].HashID = ProbeRayHitMapBuffer[r].HashID
          /\ ProbeRayHitMapBuffer[q].HitDistance # ProbeRayHitMapBuffer[r].HitDistance
          /\ RadianceCachingBuffer[U32ToIndex(ProbeRayHitMapBuffer[q].HashID)] # Zero3

\* C20: a second dispatch of the scatter in the same time step, the cache
\* not written in between, leaves for every probe ray the result the first
\* dispatch left.
C20_ScatterIdempotent ==
    (scatterPass = 2 /\ AllRays("resolved")) => RayData = firstRayData

\* the scatter has run twice over a ray with a cache dependency and a ray
\* without one
C20_ScatteredTwice ==
    /\ scatterPass = 2
    /\ AllRays("resolved")
    /\ \E q, r \in Rays : Recorded(q) /\ ~Recorded(r)
    /\ \E q \in Rays : RayData[q].Kind = "frontface"

(***************************************************************************)
(* C21  The scatter is read-only with respect to the table: no step of     *)
(* ProbeRayResolveCS changes an accumulation, resolved, metadata or        *)
(* visualization entry; a step writes at most the texel of RayData of its  *)
(* own probe ray.                                                          *)
(***************************************************************************)
ScatterPcs == {"LoadHitMap", "LoadRadiance", "StoreRayData"}

ScatterStepOf(q) == rays[q].pc \in ScatterPcs /\ rays'[q] # rays[q]

C21_ScatterReadOnly ==
    [][\A q \in Rays :
          ScatterStepOf(q) =>
             /\ AccumulationBuffer' = AccumulationBuffer
             /\ RadianceCachingBuffer' = RadianceCachingBuffer
             /\ MetadataBuffer' = MetadataBuffer
             /\ VisualizationBuffer' = VisualizationBuffer
             /\ \A r \in Rays \ {q} : RayData'[r] = RayData[r]]_vars

\* the scatter has delivered to a ray recorded against a cell that holds
\* radiance, and the cell still holds it
C21_DeliveredFromWrittenCell ==
    /\ Scattered
    /\ \E q \in Rays :
          /\ Recorded(q)
          /\ RayData[q].Kind = "frontface"
          /\ AccumulationBuffer[U32ToIndex(ProbeRayHitMapBuffer[q].HashID)].Count = 1
          /\ RadianceCachingBuffer[U32ToIndex(ProbeRayHitMapBuffer[q].HashID)] # Zero3

(***************************************************************************)
(* C22  Sentinel handling.  For a probe ray recorded with the sentinel     *)
(* (a miss, a backface hit or a fixed ray) the scatter delivers nothing    *)
(* from the table: its steps leave the ray's texel as it is, and the texel *)
(* holds the default ProbeTraceCS wrote for the ray in this time step (sky *)
(* radiance, backface distance or the distance alone).                     *)
(***************************************************************************)
DefaultKinds == {"miss", "backface", "fixed"}

HoldsDefault(q) ==
    /\ RayData[q].Kind \in DefaultKinds
    /\ RayData[q].Kind = "miss" => RayData[q].Radiance = skyRadiance
    /\ RayData[q].Kind # "miss" =>
          RayData[q].Radiance = Zero3 /\ RayData[q].Distance \in HitDistances

C22_SentinelDefault ==
    [][\A q \in Rays :
          (rays[q].pc # "untraced" /\ ~Recorded(q)) =>
             /\ HoldsDefault(q)
             /\ RayData'[q] = RayData[q]]_vars

\* the scatter has run over a missed ray, a backface ray or fixed ray, and a
\* ray with a cache dependency
C22_ScatteredSentinels ==
    /\ Scattered
    /\ \E q, r \in Rays :
          /\ ~Recorded(q) /\ RayData[q].Kind \in {"backface", "fixed"}
          /\ Recorded(r) /\ RayData[r].Kind = "frontface"

(***************************************************************************)
(* Ageing of an entry.  A cell is written in some frame and then left      *)
(* alone while the frames go by, long enough for its age to pass           *)
(* RADIANCE_CACHE_MAX_ENTRY_AGE; the invocations run one at a time.        *)
(***************************************************************************)
RADIANCE_CACHE_MAX_ENTRY_AGE == 8

MaxAgingFrame == 10
MaxAgingWrites == 2

DispatchAging == Launch(1, MaxAgingWrites)

AgingNextFrame ==
    /\ Quiescent
    /\ frameNumber < MaxAgingFrame
    /\ frameNumber' = frameNumber + 1
    /\ UNCHANGED <<side, useCollisionDetection, buffers, threads, writes, dispatchStart, fed, claimed>>

NextAging ==
    \/ DispatchAging
    \/ Retire
    \/ AgingNextFrame
    \/ \E t \in ThreadIds : Step(t)

SpecAging == Init /\ [][NextAging]_vars

\* the read of the cache on a hit of the indirect ray (GBufferCS.hlsl line
\* 242) and of the scatter (ProbeRayResolveCS.hlsl line 94): the entry as
\* it is stored, whatever the metadata of the cell says
EvaluateIndirectRadianceInline(HashID) == RadianceCachingBuffer[HashID]

Stale(i) ==
    /\ ~IsEmpty(MetadataBuffer[i].Checksum)
    /\ frameNumber >= MetadataBuffer[i].Frame
    /\ frameNumber - MetadataBuffer[i].Frame > RADIANCE_CACHE_MAX_ENTRY_AGE

(***************************************************************************)
(* C23  Staleness.  Once the age of a cell's metadata entry (the current   *)
(* frame minus the frame of its last write) exceeds the threshold, a read  *)
(* of the cell's resolved entry yields zero, until the cell is claimed     *)
(* again.                                                                  *)
(***************************************************************************)
C23_StaleReadsZero ==
    \A i \in Cells : Stale(i) => EvaluateIndirectRadianceInline(i) = Zero3

\* a claimed cell nobody has written for more than the threshold
C23_StaleCell == Quiescent /\ \E i \in Cells : Stale(i)

(***************************************************************************)
(* C24  A cell that was never claimed reads as zero: in every reachable    *)
(* state, a cell whose metadata entry is Empty (checksum 0) has an         *)
(* all-zero resolved entry.                                                *)
(***************************************************************************)
C24_EmptyReadsZero ==
    \A i \in Cells :
       IsEmpty(MetadataBuffer[i].Checksum) => RadianceCachingBuffer[i] = Zero3

\* the same, in the build that compiles the collision policy in
C24_EmptyReadsZeroCompiledIn == useCollisionDetection => C24_EmptyReadsZero

\* a cell has been written and holds radiance
C24_WrittenCell ==
    \E i \in Cells : fed[i] # {} /\ RadianceCachingBuffer[i] # Zero3

(***************************************************************************)
(* The full reset.  It zeroes the four arrays of the cache and is a        *)
(* barrier: it is not interleaved with an invocation in flight.  The       *)
(* invocations run one at a time, and the ones launched since the table    *)
(* was last all zero are kept in sinceReset, in the order of their launch  *)
(* and with the frame of their launch.                                     *)
(***************************************************************************)
MaxResetWrites == 3

DispatchReset ==
    /\ Quiescent
    /\ writes < MaxResetWrites
    /\ \E i \in Cells, s \in Surfaces :
          /\ threads' = [t \in ThreadIds |->
                            IF t = 1 THEN NewThread(i, s) ELSE IdleThread]
          /\ fed' = [fed EXCEPT ![i] = @ \cup {s}]
          /\ claimed' = [claimed EXCEPT ![i] =
                            IF fed[i] # {} THEN @
                            ELSE {[Checksum |-> s.Checksum, Frame |-> frameNumber]}]
          /\ sinceReset' = Append(sinceReset, [thread |-> NewThread(i, s),
                                               Frame |-> frameNumber])
    /\ writes' = writes + 1
    /\ dispatchStart' = Snapshot
    /\ UNCHANGED <<lifetime, probe, hash, tools, frameNumber, useCollisionDetection, buffers>>

\* a reset that clears the accumulation entries and nothing else
FullResetAccumulationOnly ==
    /\ Quiescent
    /\ AccumulationBuffer' = [i \in Cells |-> ZeroAccum]
    /\ fed' = [i \in Cells |-> {}]
    /\ claimed' = [i \in Cells |-> {}]
    /\ sinceReset' = <<>>
    /\ dispatchStart' = [Snapshot EXCEPT !.Accumulation = [i \in Cells |-> ZeroAccum]]
    /\ UNCHANGED <<lifetime, probe, hash, tools, frameNumber, useCollisionDetection, threads, writes,
                   MetadataBuffer, RadianceCachingBuffer, VisualizationBuffer>>

FullReset ==
    /\ Quiescent
    /\ AccumulationBuffer' = [i \in Cells |-> ZeroAccum]
    /\ MetadataBuffer' = [i \in Cells |-> ZeroMeta]
    /\ RadianceCachingBuffer' = [i \in Cells |-> Zero3]
    /\ VisualizationBuffer' = [i \in Cells |-> ZeroVis]
    /\ fed' = [i \in Cells |-> {}]
    /\ claimed' = [i \in Cells |-> {}]
    /\ sinceReset' = <<>>
    /\ dispatchStart' = [Accumulation |-> ZeroTable.Accumulation,
                         Metadata |-> ZeroTable.Metadata,
                         Radiance |-> ZeroTable.Radiance, Frame |-> frameNumber]
    /\ UNCHANGED <<lifetime, probe, hash, tools, frameNumber, useCollisionDetection, threads, writes>>

NextReset ==
    \/ DispatchReset
    \/ Retire
    \/ NextFrame
    \/ FullReset
    \/ \E t \in ThreadIds : Step(t)

SpecReset == Init /\ [][NextReset]_vars

\* a brand-new cache fed the invocations of seq, one after the other
RECURSIVE RunSequence(_, _)
RunSequence(tab, seq) ==
    IF seq = <<>> THEN tab
    ELSE RunSequence(RunCS(tab, Head(seq).thread, Head(seq).Frame), Tail(seq))

\* lines 502-508, of the invocations of seq one after the other
RECURSIVE VisualizeSequence(_, _)
VisualizeSequence(vis, seq) ==
    IF seq = <<>> THEN vis
    ELSE LET th == Head(seq).thread
             old == vis[th.HitIndex]
         IN  VisualizeSequence(
                [vis EXCEPT ![th.HitIndex] =
                    [DirectRadiance |->
                        Lerp3(old.DirectRadiance, th.DirectLight, VisualizationBlend),
                     IndirectRadiance |->
                        Lerp3(old.IndirectRadiance, th.IndirectLight, VisualizationBlend)]],
                Tail(seq))

\* invocations ran on the table before it was reset
WasReset == writes > Len(sinceReset)

C26_FrameMonotone == [][frameNumber' >= frameNumber]_vars

\* the same, of every step but the handling of a camera movement
C26_FrameMonotoneCameraStill ==
    [][frameNumber' < frameNumber => (frameNumber' = 1 /\ Quiescent)]_vars

(***************************************************************************)
(* The spatial hash (SpatialHash.hlsl, as included in                      *)
(* InlineRayTracingUnitTest.hlsl).  A uint is kept at its full width as    *)
(* two limbs of 16 bits; a position is a triple of exact rationals, and    *)
(* length() and the divisions are taken as exact.  An index below 2^31 is  *)
(* kept as an integer.                                                     *)
(***************************************************************************)
RECURSIVE Xor16(_, _)
Xor16(a, b) ==
    IF a = 0 THEN b
    ELSE IF b = 0 THEN a
    ELSE 2 * Xor16(a \div 2, b \div 2) + ((a + b) % 2)

\* a ^ b
U32Xor(a, b) == <<Xor16(a[1], b[1]), Xor16(a[2], b[2])>>

\* a << k, for 0 < k < 32
U32Shl(a, k) ==
    IF k < 16
    THEN <<(a[1] % (2 ^ (16 - k))) * (2 ^ k) + (a[2] \div (2 ^ (16 - k))),
           (a[2] % (2 ^ (16 - k))) * (2 ^ k)>>
    ELSE <<(a[2] % (2 ^ (32 - k))) * (2 ^ (k - 16)), 0>>

\* a >> k, for 0 < k < 32
U32Shr(a, k) ==
    IF k < 16
    THEN <<a[1] \div (2 ^ k), (a[1] % (2 ^ k)) * (2 ^ (16 - k)) + (a[2] \div (2 ^ k))>>
    ELSE <<0, a[1] \div (2 ^ (k - 16))>>

\* a * b modulo 2^32, a byte of b at a time
U32Mul(a, b) ==
    U32Add(U32Add(U32Scale(a, b[2] % 256),
                  U32Shl(U32Scale(a, b[2] \div 256), 8)),
           U32Add(U32Shl(U32Scale(a, b[1] % 256), 16),
                  U32Shl(U32Scale(a, b[1] \div 256), 24)))

\* a % n, for 0 < n < 2^25
RECURSIVE DoubleMod(_, _, _)
DoubleMod(r, k, n) == IF k = 0 THEN r ELSE DoubleMod((2 * r) % n, k - 1, n)

U32Mod(a, n) == (DoubleMod(a[1] % n, 16, n) + (a[2] % n)) % n

\* (uint) of an int: two's complement
IntToUint(g) == IF g >= 0 THEN U32(g) ELSE <<Limb - 1, Limb + g>>

\* (float) of a uint below 2^31: the nearest float, ties to even
RECURSIVE BitLength(_)
BitLength(n) == IF n = 0 THEN 0 ELSE 1 + BitLength(n \div 2)

UintToFloat(n) ==
    IF BitLength(n) <= 24 THEN n
    ELSE LET ulp == 2 ^ (BitLength(n) - 24)
             q == n \div ulp
             r == n % ulp
         IN  IF 2 * r < ulp THEN q * ulp
             ELSE IF 2 * r > ulp THEN (q + 1) * ulp
             ELSE (q + (q % 2)) * ulp

RDiv(x, y) == RMul(x, <<y[2], y[1]>>)

Floor(x) == x[1] \div x[2]

XorShift32(x) ==
    LET x1 == U32Xor(x, U32Shl(x, 13))
        x2 == U32Xor(x1, U32Shr(x1, 17))
    IN  U32Xor(x2, U32Shl(x2, 5))

GridCoord(P, cellSize) ==
    <<Floor(RDiv(P[1], cellSize)), Floor(RDiv(P[2], cellSize)),
      Floor(RDiv(P[3], cellSize))>>

FnvOffsetBasis == <<33052, 40389>>
FnvPrime == <<256, 403>>

\* SpatialHash_H up to its final mixing: the argument of WangHash
SpatialHash_H(P, cellSize) ==
    LET g == GridCoord(P, cellSize)
        h1 == U32Mul(U32Xor(FnvOffsetBasis, IntToUint(g[1])), FnvPrime)
        h2 == U32Mul(U32Xor(h1, IntToUint(g[2])), FnvPrime)
    IN  U32Mul(U32Xor(h2, IntToUint(g[3])), FnvPrime)

\* a checksum that mixes the frame number in
SpatialHash_ChecksumByFrame(P, cellSize) ==
    LET g == GridCoord(P, cellSize)
    IN  U32Add(U32Add(XorShift32(IntToUint(g[1])), XorShift32(IntToUint(g[2]))),
               XorShift32(IntToUint(g[3] + frameNumber)))

SpatialHash_Checksum(P, cellSize) ==
    LET g == GridCoord(P, cellSize)
    IN  U32Add(U32Add(XorShift32(IntToUint(g[1])), XorShift32(IntToUint(g[2]))),
               XorShift32(IntToUint(g[3])))

\* floor(sqrt(q)), for a rational q >= 0
RECURSIVE FloorSqrtFrom(_, _)
FloorSqrtFrom(q, k) ==
    IF (k + 1) * (k + 1) * q[2] > q[1] THEN k ELSE FloorSqrtFrom(q, k + 1)

Square(x) == RMul(x, x)

\* the square of length(P - CameraPos)
DistanceSquared(P, CameraPos) ==
    RAdd(RAdd(Square(RSub(P[1], CameraPos[1])), Square(RSub(P[2], CameraPos[2]))),
         Square(RSub(P[3], CameraPos[3])))

IntMin(a, b) == IF a <= b THEN a ELSE b

\* a cascade index without the clamp to the last cascade
CalculateCascadeIndexUnclamped(P, CameraPos, CascadeNum, CascadeDistance) ==
    FloorSqrtFrom(RDiv(DistanceSquared(P, CameraPos), Square(CascadeDistance)), 0)

CalculateCascadeIndex(P, CameraPos, CascadeNum, CascadeDistance) ==
    IntMin(FloorSqrtFrom(RDiv(DistanceSquared(P, CameraPos), Square(CascadeDistance)), 0),
           CascadeNum - 1)

CalculateCascadeCellSize(CascadeIndex, CellSize) ==
    RMul(CellSize, <<2 ^ CascadeIndex, 1>>)

\* SpatialHashIndex, of the value WangHash returned
SpatialHashIndex(wang, CellNum) == U32Mod(wang, CellNum)

\* the sum of SpatialHashCascadeIndex: CascadeIndex is a float, so the
\* product and the sum are float operations and the result is converted
\* back to uint
CascadeOffsetIndex(Index, CascadeIndex, CellNum) ==
    UintToFloat(UintToFloat(Index) + UintToFloat(UintToFloat(CascadeIndex) * UintToFloat(CellNum)))

(***************************************************************************)
(* Indexing a surface point.  The point, the camera and the configuration  *)
(* of the table are fixed; ProbeTraceCS (line 113) and the radiance cache  *)
(* pass (GBufferCS.hlsl lines 351-360) index the point, in any frame and   *)
(* any number of times.  WangHash is not part of the sources: it is any    *)
(* function of its argument, whose values are fixed as they are asked for. *)
(***************************************************************************)
MaxHashCalls == 2

Origin == <<Zero, Zero, Zero>>

HashPositions ==
    { <<Rat(1, 2), Rat(1, 2), Rat(1, 2)>>, <<Rat(3, 2), Rat(1, 2), Rat(1, 2)>>,
      <<Rat(-1, 2), Rat(1, 2), Rat(1, 2)>>, <<Rat(5, 2), Zero, Zero>>,
      <<Rat(9, 2), Zero, Zero>>, <<Rat(21, 2), Rat(1, 2), Rat(-3, 2)>> }

CameraPositions == {Origin, <<One, Zero, Zero>>}

HashConfigs ==
    { [BaseCellSize |-> One, CellNum |-> 16, CascadeNum |-> 1,
       CascadeDistance |-> Rat(2, 1)],
      [BaseCellSize |-> Rat(1, 2), CellNum |-> 4, CascadeNum |-> 3,
       CascadeDistance |-> Rat(2, 1)],
      [BaseCellSize |-> One, CellNum |-> 8388608, CascadeNum |-> 3,
       CascadeDistance |-> Rat(2, 1)] }

WangValues == {U32(0), U32(5), <<Limb - 1, Limb - 1>>}

NotCalled == [Frame |-> 0, Calls |-> 0]

InitIndex ==
    /\ InitCache
    /\ ~useCollisionDetection
    /\ InitEntry32
    /\ InitProbe
    /\ sinceReset = <<>>
    /\ InitTools
    /\ \E P \in HashPositions, CameraPos \in CameraPositions, config \in HashConfigs :
          hash = [pc |-> "input", P |-> P, CameraPos |-> CameraPos, config |-> config,
                  wang |-> <<>>, trace |-> NotCalled, cache |-> NotCalled]

\* GetCamera().position is the camera of the state
GetCascadeIndex(P, CascadeNum, CascadeDistance) ==
    CalculateCascadeIndex(P, hash.CameraPos, CascadeNum, CascadeDistance)

\* the argument WangHash gets in SpatialHash_H for the cell of P
WangHashArgument(P, BaseCellSize, CascadeNum, CascadeDistance) ==
    SpatialHash_H(P, CalculateCascadeCellSize(
                        GetCascadeIndex(P, CascadeNum, CascadeDistance), BaseCellSize))

WangHashResults(x) == IF x \in DOMAIN hash.wang THEN {hash.wang[x]} ELSE WangValues

Remember(x, w) ==
    [y \in (DOMAIN hash.wang) \cup {x} |-> IF y = x THEN w ELSE hash.wang[y]]

SpatialHashCascadeIndex(P, BaseCellSize, CellNum, CascadeNum, CascadeDistance, wang) ==
    LET CascadeIndex == GetCascadeIndex(P, CascadeNum, CascadeDistance)
    IN  CascadeOffsetIndex(SpatialHashIndex(wang, CellNum), CascadeIndex, CellNum)

SpatialHashCascadeIndexWithChecksum(P, BaseCellSize, CellNum, CascadeNum, CascadeDistance, wang) ==
    LET CascadeIndex == GetCascadeIndex(P, CascadeNum, CascadeDistance)
        CellSize == CalculateCascadeCellSize(CascadeIndex, BaseCellSize)
    IN  [HashIndex |-> CascadeOffsetIndex(SpatialHashIndex(wang, CellNum),
                                          CascadeIndex, CellNum),
         Checksum |-> SpatialHash_Checksum(P, CellSize)]

CallsAfter(call) == IntMin(call.Calls + 1, MaxHashCalls)

\* ProbeTraceCS.hlsl line 113
ProbeTraceIndex ==
    /\ hash.pc = "input"
    /\ LET c == hash.config
           x == WangHashArgument(hash.P, c.BaseCellSize, c.CascadeNum, c.CascadeDistance)
       IN  \E w \in WangHashResults(x) :
              hash' = [hash EXCEPT
                 !.wang = Remember(x, w),
                 !.trace = [HashID |-> SpatialHashCascadeIndex(
                                          hash.P, c.BaseCellSize, c.CellNum,
                                          c.CascadeNum, c.CascadeDistance, w),
                            Cascade |-> GetCascadeIndex(hash.P, c.CascadeNum,
                                                        c.CascadeDistance),
                            Frame |-> frameNumber,
                            Calls |-> CallsAfter(hash.trace)]]
    /\ UNCHANGED <<host, buffers, threads, lifetime, probe, sinceReset, tools>>

\* GBufferCS.hlsl lines 351-360
RadianceCacheIndex ==
    /\ hash.pc = "input"
    /\ LET c == hash.config
           x == WangHashArgument(hash.P, c.BaseCellSize, c.CascadeNum, c.CascadeDistance)
       IN  \E w \in WangHashResults(x) :
              LET out == SpatialHashCascadeIndexWithChecksum(
                            hash.P, c.BaseCellSize, c.CellNum, c.CascadeNum,
                            c.CascadeDistance, w)
              IN  hash' = [hash EXCEPT
                     !.wang = Remember(x, w),
                     !.cache = [HashIndex |-> out.HashIndex, Checksum |-> out.Checksum,
                                Cascade |-> GetCascadeIndex(hash.P, c.CascadeNum,
                                                            c.CascadeDistance),
                                Frame |-> frameNumber,
                                Calls |-> CallsAfter(hash.cache)]]
    /\ UNCHANGED <<host, buffers, threads, lifetime, probe, sinceReset, tools>>

NextIndex ==
    \/ ProbeTraceIndex
    \/ RadianceCacheIndex
    \/ NextFrame

SpecIndex == InitIndex /\ [][NextIndex]_vars

Traced == hash.pc = "input" /\ hash.trace.Calls > 0
Recalculated == hash.pc = "input" /\ hash.cache.Calls > 0

(***************************************************************************)
(* C27  The checksum computed for a cell key is never zero, the value the  *)
(* metadata of an Empty cell holds.                                        *)
(***************************************************************************)
C27_ChecksumNonZero == Recalculated => hash.cache.Checksum # U32(0)

InCascade(Index, Cascade) ==
    /\ Cascade < hash.config.CascadeNum
    /\ Cascade * hash.config.CellNum <= Index
    /\ Index < (Cascade + 1) * hash.config.CellNum

(***************************************************************************)
(* C28  The index computed for a point is valid: it lies in the range of   *)
(* the point's cascade, from cascade * CellNum up to but excluding         *)
(* (cascade + 1) * CellNum, so below CellNum * CascadeNum, and the ranges  *)
(* of two cascades share no index.                                         *)
(***************************************************************************)
C28_IndexInCascade ==
    /\ Traced => InCascade(hash.trace.HashID, hash.trace.Cascade)
    /\ Recalculated => InCascade(hash.cache.HashIndex, hash.cache.Cascade)

\* the same, of a table of at most 2^24 cells
C28_IndexInCascadeExactFloat ==
    (hash.pc = "input" /\ hash.config.CellNum * hash.config.CascadeNum <= 2 ^ 24)
       => C28_IndexInCascade

RLess(x, y) == ~RLeq(y, x)

(***************************************************************************)
(* C30  Cascade selection.  The cascade of a point is                      *)
(* min(floor(distance / CascadeDistance), CascadeNum - 1), distance being  *)
(* the distance of the point from the camera, and lies in                  *)
(* [0, CascadeNum): cascade * CascadeDistance <= distance, and below the   *)
(* last cascade distance < (cascade + 1) * CascadeDistance.                *)
(***************************************************************************)
C30_CascadeSelection ==
    Traced =>
       LET Cascade == hash.trace.Cascade
           D2 == Square(hash.config.CascadeDistance)
           d2 == DistanceSquared(hash.P, hash.CameraPos)
       IN  /\ Cascade \in 0 .. (hash.config.CascadeNum - 1)
           /\ RLeq(RMul(<<Cascade * Cascade, 1>>, D2), d2)
           /\ Cascade < hash.config.CascadeNum - 1 =>
                 RLess(d2, RMul(<<(Cascade + 1) * (Cascade + 1), 1>>, D2))

\* a point beyond the last cascade was clamped to it, among several cascades
C30_ClampedToLastCascade ==
    /\ Traced
    /\ hash.config.CascadeNum > 1
    /\ hash.trace.Cascade = hash.config.CascadeNum - 1
    /\ RLeq(RMul(<<hash.config.CascadeNum * hash.config.CascadeNum, 1>>,
                 Square(hash.config.CascadeDistance)),
            DistanceSquared(hash.P, hash.CameraPos))

(***************************************************************************)
(* The contributions a cell took and what its sums hold of them.           *)
(***************************************************************************)
InUnitRange(x) == RLeq(Zero, x) /\ RLeq(x, One)

\* the sum of channel c of the radiance of the invocations of seq on cell i
RECURSIVE SumOfContributions(_, _, _)
SumOfContributions(seq, i, c) ==
    IF seq = <<>> THEN Zero
    ELSE LET th == Head(seq).thread
             rest == SumOfContributions(Tail(seq), i, c)
         IN  IF th.HitIndex = i THEN RAdd(NewRadiance(th)[c], rest) ELSE rest

ContributionsTo(i) == {k \in 1 .. Len(sinceReset) : sinceReset[k].thread.HitIndex = i}

ChannelSum(i, c) ==
    IF c = 1 THEN AccumulationBuffer[i].R
    ELSE IF c = 2 THEN AccumulationBuffer[i].G ELSE AccumulationBuffer[i].B

RAbs(x) == <<Abs(x[1]), x[2]>>

\* unscale(sum) / N is within 1 / RADIANCE_CACHE_RADIANCE_SCALE of the mean
\* of the N contributions, both sides times N
MeanWithinScale(i, c) ==
    LET N == AccumulationBuffer[i].Count
    IN  RLeq(RAbs(RSub(Rat(ChannelSum(i, c), RADIANCE_CACHE_RADIANCE_SCALE),
                       SumOfContributions(sinceReset, i, c))),
             Rat(N, RADIANCE_CACHE_RADIANCE_SCALE))

\* channel c of the entry at its full width
Channel32(entry, c) == IF c = 1 THEN entry.R ELSE IF c = 2 THEN entry.G ELSE entry.B

(***************************************************************************)
(* C31  Fixed-point accuracy.  Each accepted contribution with a channel   *)
(* in [0, 1] raises the sum of the channel by the contribution scaled by   *)
(* RADIANCE_CACHE_RADIANCE_SCALE and rounded to an integer, so that        *)
(* unscale(sum) / N stays within 1 / RADIANCE_CACHE_RADIANCE_SCALE of the  *)
(* mean of the N contributions: the sum after the contribution is the sum  *)
(* before it plus an integer within 1 of the scaled contribution.          *)
(***************************************************************************)
C31_FixedPointAccuracy ==
    [][\A s \in Surfaces, c \in 1 .. 3 :
          (Accumulate32(s) /\ InUnitRange(NewRadiance(s)[c])) =>
             \E k \in 0 .. RADIANCE_CACHE_RADIANCE_SCALE :
                /\ RLeq(RAbs(RSub(<<k, 1>>,
                                  RMul(NewRadiance(s)[c],
                                       <<RADIANCE_CACHE_RADIANCE_SCALE, 1>>))), One)
                /\ Channel32(Accumulation32', c) = U32Add(Channel32(Accumulation32, c), U32(k))
                /\ U32Leq(Channel32(Accumulation32, c), Channel32(Accumulation32', c))]_vars

\* C31 of a cell whose contributions since it was all zero are all held in
\* its sums, far below 2^32: the mean of the sums is within
\* 1 / RADIANCE_CACHE_RADIANCE_SCALE of the mean of the contributions
C31_FixedPointAccuracyBelowWrap ==
    \A i \in Cells, c \in 1 .. 3 :
       (/\ Quiescent
        /\ AccumulationBuffer[i].Count = Cardinality(ContributionsTo(i))
        /\ \A k \in ContributionsTo(i) :
              InUnitRange(NewRadiance(sinceReset[k].thread)[c]))
          => MeanWithinScale(i, c)

\* three contributions, one of them no multiple of the scale, are held
C31_ThreeContributions ==
    \E i \in Cells :
       /\ Quiescent
       /\ AccumulationBuffer[i].Count = 3
       /\ Cardinality(ContributionsTo(i)) = 3
       /\ AccumulationBuffer[i].B # 0

(***************************************************************************)
(* C32  The visualization entry of a cell is written with the blend factor *)
(* of the resolved entry: an invocation that wrote the resolved entry      *)
(* stores, as DirectRadiance and IndirectRadiance, the old values blended  *)
(* towards its lighting with the blend factor it applied to the resolved   *)
(* entry.                                                                  *)
(***************************************************************************)
C32_SameBlendFactor ==
    [][\A t \in ThreadIds :
          (threads[t].pc = "StoreVisualization" /\ Steps(t)
             /\ ~threads[t].bSkipAccumulation) =>
             LET th == threads[t]
                 vis == VisualizationBuffer'[th.HitIndex]
             IN  /\ vis.DirectRadiance =
                       Lerp3(th.OldDirectRadiance, th.DirectLight, BlendFactorUsed(th))
                 /\ vis.IndirectRadiance =
                       Lerp3(th.OldIndirectRadiance, th.IndirectLight, BlendFactorUsed(th))]_vars

\* the invocations launched on cell i since the table was all zero came one
\* per time step, in consecutive time steps, and the sums hold them all
WrittenEveryStep(i) ==
    /\ ContributionsTo(i) = 1 .. Len(sinceReset)
    /\ \A k \in 1 .. (Len(sinceReset) - 1) :
          sinceReset[k + 1].Frame = sinceReset[k].Frame + 1
    /\ AccumulationBuffer[i].Count = Len(sinceReset)

(***************************************************************************)
(* C33  Hybrid moving average.  For a cell written in every time step,     *)
(* after step n of the first RADIANCE_CACHE_MAX_ACCUMULATED_SAMPLES steps  *)
(* the resolved value is the running mean of the n contributions (as the   *)
(* sums hold them, scaled back).                                           *)
(***************************************************************************)
C33_RunningMean ==
    \A i \in Cells :
       (/\ Quiescent
        /\ WrittenEveryStep(i)
        /\ Len(sinceReset) \in 1 .. RADIANCE_CACHE_MAX_ACCUMULATED_SAMPLES)
          => \A c \in 1 .. 3 :
                RadianceCachingBuffer[i][c] =
                   Rat(ChannelSum(i, c),
                       RADIANCE_CACHE_RADIANCE_SCALE * AccumulationBuffer[i].Count)

\* the same, of a cell that was given one and the same contribution in
\* every time step
C33_RunningMeanOfOneInput ==
    \A i \in Cells :
       (/\ Quiescent
        /\ WrittenEveryStep(i)
        /\ Len(sinceReset) \in 1 .. RADIANCE_CACHE_MAX_ACCUMULATED_SAMPLES
        /\ Cardinality(fed[i]) = 1)
          => \A c \in 1 .. 3 :
                RadianceCachingBuffer[i][c] =
                   Rat(ChannelSum(i, c),
                       RADIANCE_CACHE_RADIANCE_SCALE * AccumulationBuffer[i].Count)

(***************************************************************************)
(* C34  In a frame, the texel of RayData of a probe ray is written by      *)
(* exactly one of ProbeTraceCS and ProbeRayResolveCS: by ProbeTraceCS when *)
(* it records the sentinel for the ray, by ProbeRayResolveCS when the      *)
(* ray's entry of the hit map holds the HashID ProbeTraceCS recorded in    *)
(* the frame.                                                              *)
(***************************************************************************)
C34_OneWriterPerRay ==
    [][\A q \in Rays :
          /\ (rays[q].pc \in {"untraced", "StoreHitDistance"}) =>
                ((RayData'[q] # RayData[q]) <=>
                    /\ rays'[q].pc = "traced"
                    /\ ProbeRayHitMapBuffer'[q].HashID = PROBE_RAY_HIT_MAP_INVALID)
          /\ (rays[q].pc \notin {"untraced", "StoreHitDistance"}
                /\ RayData'[q] # RayData[q]) =>
                (rays[q].pc = "StoreRayData" /\ Recorded(q))
          /\ (scatterPass' >= 1 /\ rays'[q].pc = "resolved") =>
                /\ RayData'[q].Kind # "none"
                /\ (RayData'[q].Kind = "frontface") <=>
                      (ProbeRayHitMapBuffer'[q].HashID # PROBE_RAY_HIT_MAP_INVALID)]_vars

\* after one scatter a missed ray holds the texel of ProbeTraceCS and a ray
\* recorded against a cell the texel of ProbeRayResolveCS
C34_BothWriters ==
    /\ Scattered
    /\ scatterPass = 1
    /\ \E q, r \in Rays :
          /\ ~Recorded(q) /\ RayData[q].Kind = "miss"
          /\ Recorded(r) /\ RayData[r].Kind = "frontface"

\* the rays ProbeTraceCS recorded against cell i
RaysOf(i) == {q \in Rays : Recorded(q) /\ ProbeRayHitMapBuffer[q].HashID = U32(i)}

\* the record ProbeTraceCS packed for a ray it recorded against a cell
HitRecordOf(q) ==
    [ProbeRayIndex |-> q, HitDistance |-> asfloat(ProbeRayHitMapBuffer[q].HitDistance)]

(***************************************************************************)
(* C35  When several probe rays of a frame map to the same HashID and      *)
(* store to HitCachingBuffer concurrently, the cell holds after            *)
(* ProbeTraceCS the whole hit record of exactly one of those rays, never   *)
(* fields of different rays.                                               *)
(***************************************************************************)
C35_WholeHitRecord ==
    AllRays("traced") =>
        \A i \in Cells :
            RaysOf(i) # {} =>
                \E q \in RaysOf(i) : HitCachingBuffer[i] = HitRecordOf(q)

\* a cell one ray alone stored to holds that ray's record
C35_WholeHitRecordOfLoneRay ==
    AllRays("traced") =>
        \A i \in Cells :
            Cardinality(RaysOf(i)) = 1 =>
                \E q \in RaysOf(i) : HitCachingBuffer[i] = HitRecordOf(q)

\* two rays with different hit distances were recorded against one cell
C35_TwoRecordsOneCell ==
    /\ AllRays("traced")
    /\ \E i \in Cells : \E q, r \in RaysOf(i) :
          q # r /\ HitRecordOf(q).HitDistance # HitRecordOf(r).HitDistance

(***************************************************************************)
(* C36  In every reachable state the frame stored with a cell is at most   *)
(* the current frame, so that the unsigned Age = CurrentFrame -            *)
(* StoredFrame of the collision policy is the number of frames elapsed     *)
(* and never wraps.                                                        *)
(***************************************************************************)
C36_StoredFrameNotAhead ==
    \A i \in Cells :
        /\ MetadataBuffer[i].Frame <= frameNumber
        /\ UintSub(frameNumber, MetadataBuffer[i].Frame) =
               frameNumber - MetadataBuffer[i].Frame

\* the same, of the steps that store a frame: the invocations of CS
C36_StoredFrameIsCurrent ==
    [][\A i \in Cells :
          MetadataBuffer'[i].Frame # MetadataBuffer[i].Frame =>
              MetadataBuffer'[i].Frame = frameNumber]_vars

(***************************************************************************)
(* The shader precompiler (tools/ShaderCompiler): main.cpp, HashCache.h    *)
(* and Compiler.h.  A path is the sequence of its pieces, a backslash      *)
(* being a piece of its own; the content of a source file and of its       *)
(* includes is kept as the number its hash stands for, 0 for a file that   *)
(* does not exist.  What dxc answers and whether a file can be written     *)
(* are inputs of each step.                                                *)
(***************************************************************************)
MaxRuns == 2

\* manifest.GetShaders(), in the order of the manifest
Manifest == <<"GBufferCS", "ProbeTraceCS">>

ShaderNames == {Manifest[k] : k \in 1..Len(Manifest)}

Contents == {1, 2}

Backslash == "\\"

\* --output as given on the command line
OutputDirs == {<<"out">>, <<"out", Backslash, "dxil">>}

\* Compiler::GetVersion, and the version an earlier build of the tool wrote
CurrentCompilerVersion == "1.7.2308"

EarlierCompilerVersion == "1.6.2112"

NoFile == [exists |-> FALSE]

NoEntries == [s \in {} |-> 0]

\* HashCache::EscapePath
RECURSIVE EscapePath(_)
EscapePath(path) ==
    IF path = <<>> THEN <<>>
    ELSE IF Head(path) = Backslash
         THEN <<Backslash, Backslash>> \o EscapePath(Tail(path))
         ELSE <<Head(path)>> \o EscapePath(Tail(path))

\* HashCache::ExtractStringValue: the text between the quotes, as it stands
ExtractStringValue(text) == text

\* a run of separators names what one separator names
RECURSIVE CollapseSeparators(_)
CollapseSeparators(path) ==
    IF Len(path) < 2 THEN path
    ELSE IF Head(path) = Backslash /\ path[2] = Backslash
         THEN CollapseSeparators(Tail(path))
         ELSE <<Head(path)>> \o CollapseSeparators(Tail(path))

\* std::filesystem::exists of an output path
OutputExists(path) ==
    IF build.separatorsCollapse
    THEN \E f \in build.outputFiles : CollapseSeparators(f) = CollapseSeparators(path)
    ELSE path \in build.outputFiles

\* main.cpp line 219
DxilOutput(outputDir, name) == outputDir \o <<"/", name, ".dxil">>

\* Hash::ComputeShaderHash of a source that exists
ComputeShaderHash(name) == build.sourceFiles[name]

\* HashCache::Save lines 56-108: the text of the cache file
Save(compilerVersion, entries) ==
    [exists |-> TRUE,
     compiler_version |-> compilerVersion,
     entries |-> [s \in DOMAIN entries |->
                     [hash |-> entries[s].hash,
                      output_dxil |-> EscapePath(entries[s].outputDxil)]]]

\* HashCache::ParseJson lines 185-235: the entries of a cache file
ParseJson(file) ==
    [s \in DOMAIN file.entries |->
        [hash |-> file.entries[s].hash,
         outputDxil |-> ExtractStringValue(file.entries[s].output_dxil)]]

\* a cache that looks at the hash alone
IsUpToDateByHash(m_entries, shaderName, currentHash) ==
    shaderName \in DOMAIN m_entries /\ m_entries[shaderName].hash = currentHash

\* HashCache::IsUpToDate lines 110-131
IsUpToDate(m_entries, shaderName, currentHash) ==
    IF shaderName \notin DOMAIN m_entries THEN FALSE
    ELSE IF m_entries[shaderName].hash # currentHash THEN FALSE
    ELSE IF m_entries[shaderName].outputDxil # <<>>
            /\ ~OutputExists(m_entries[shaderName].outputDxil) THEN FALSE
    ELSE TRUE

\* HashCache::CompilerVersionChanged lines 158-161
CompilerVersionChanged(m_compilerVersion, currentVersion) ==
    m_compilerVersion # currentVersion /\ m_compilerVersion # ""

\* the cache files an earlier run can have left: none, or one written by
\* this or by an earlier build of the tool for the first shader
InitialCacheFiles(outputDir) ==
    {NoFile} \cup
    {Save(v, [s \in {Manifest[1]} |->
                 [hash |-> 1, outputDxil |-> DxilOutput(outputDir, s)]]) :
        v \in {CurrentCompilerVersion, EarlierCompilerVersion}}

\* everything but the two tools
rendering == <<host, buffers, threads, lifetime, probe, sinceReset, hash>>

InitRendering ==
    /\ InitCache
    /\ InitEntry32
    /\ InitProbe
    /\ sinceReset = <<>>
    /\ hash = NoHash

InitBuild ==
    /\ InitRendering
    /\ parser = NoParse
    /\ \E outputDir \in OutputDirs, separatorsCollapse \in BOOLEAN :
       \E cacheFile \in InitialCacheFiles(outputDir) :
          build = [pc |-> "exited", runs |-> 0,
                   outputDir |-> outputDir,
                   separatorsCollapse |-> separatorsCollapse,
                   sourceFiles |-> [s \in ShaderNames |-> 1],
                   outputFiles |-> IF cacheFile = NoFile THEN {}
                                   ELSE {DxilOutput(outputDir, Manifest[1])},
                   cacheFile |-> cacheFile,
                   loaded |-> NoFile,
                   force |-> FALSE, dryRun |-> FALSE, cacheLoaded |-> FALSE,
                   forceRebuild |-> FALSE, m_compilerVersion |-> "",
                   m_entries |-> NoEntries, next |-> 1,
                   compiled |-> 0, skipped |-> 0, errors |-> 0, exitCode |-> 0,
                   failed |-> {}, dxil |-> "none"]

\* between two runs a source file is edited, removed or restored
EditSource ==
    /\ build.pc = "exited"
    /\ build.runs < MaxRuns
    /\ \E s \in ShaderNames, c \in Contents \cup {0} :
          /\ c # build.sourceFiles[s]
          /\ build' = [build EXCEPT !.sourceFiles[s] = c]
    /\ UNCHANGED <<rendering, parser>>

\* between two runs a compiled shader is removed
RemoveOutput ==
    /\ build.pc = "exited"
    /\ build.runs < MaxRuns
    /\ \E f \in build.outputFiles :
          build' = [build EXCEPT !.outputFiles = build.outputFiles \ {f}]
    /\ UNCHANGED <<rendering, parser>>

\* main.cpp lines 115-160: the arguments, the compiler and the cache
Main ==
    /\ build.pc = "exited"
    /\ build.runs < MaxRuns
    /\ \E force \in BOOLEAN, dryRun \in BOOLEAN, initialized \in BOOLEAN :
          IF ~dryRun /\ ~initialized
          THEN build' = [build EXCEPT !.runs = build.runs + 1,
                                      !.force = force, !.dryRun = dryRun,
                                      !.loaded = NoFile, !.exitCode = 1,
                                      !.failed = {}, !.dxil = "none"]
          ELSE LET compilerVersion == CurrentCompilerVersion
                   cacheLoaded == build.cacheFile.exists
                   m_compilerVersion ==
                       IF cacheLoaded THEN build.cacheFile.compiler_version
                       ELSE compilerVersion
               IN  build' = [build EXCEPT
                      !.pc = "shaders",
                      !.runs = build.runs + 1,
                      !.force = force,
                      !.dryRun = dryRun,
                      !.loaded = build.cacheFile,
                      !.cacheLoaded = cacheLoaded,
                      !.m_compilerVersion = m_compilerVersion,
                      !.m_entries = IF cacheLoaded THEN ParseJson(build.cacheFile)
                                    ELSE NoEntries,
                      !.forceRebuild =
                          force \/ (cacheLoaded /\
                              CompilerVersionChanged(m_compilerVersion, compilerVersion)),
                      !.next = 1, !.compiled = 0, !.skipped = 0, !.errors = 0,
                      !.exitCode = 0, !.failed = {}, !.dxil = "none"]
    /\ UNCHANGED <<rendering, parser>>

\* HashCache::UpdateEntry with the entry of main.cpp lines 330-337
UpdateEntry(m_entries, shaderName, currentHash, dxilOutput) ==
    [s \in DOMAIN m_entries \cup {shaderName} |->
        IF s = shaderName THEN [hash |-> currentHash, outputDxil |-> dxilOutput]
        ELSE m_entries[s]]

\* main.cpp lines 190-363: the body of the loop for the next shader of the
\* manifest; success and saved are what dxc and the file system answer.
\* failed and dxil keep what happened: the shaders of the run with a missing
\* source, a failed compilation or a failed save, and how far the last one got.
ProcessShader ==
    LET name == Manifest[build.next]
        dxilOutput == DxilOutput(build.outputDir, name)
        advanced == [build EXCEPT !.next = build.next + 1, !.dxil = "none"]
        error == [advanced EXCEPT !.errors = build.errors + 1,
                                  !.failed = build.failed \cup {name}] IN
    /\ build.pc = "shaders"
    /\ build.next <= Len(Manifest)
    /\ \E success \in BOOLEAN, saved \in BOOLEAN :
          IF build.sourceFiles[name] = 0
          THEN build' = error
          ELSE LET currentHash == ComputeShaderHash(name)
                   needsCompile == build.forceRebuild
                                   \/ ~IsUpToDate(build.m_entries, name, currentHash)
               IN  IF ~needsCompile
                   THEN build' = [advanced EXCEPT !.skipped = build.skipped + 1]
                   ELSE IF build.dryRun
                   THEN build' = advanced
                   ELSE IF ~success
                   THEN build' = [error EXCEPT !.dxil = "not compiled"]
                   ELSE IF ~saved
                   THEN build' = [error EXCEPT !.dxil = "not saved"]
                   ELSE build' = [advanced EXCEPT
                           !.dxil = "saved",
                           !.outputFiles = build.outputFiles \cup {dxilOutput},
                           !.m_entries = UpdateEntry(build.m_entries, name,
                                                     currentHash, dxilOutput),
                           !.compiled = build.compiled + 1]
    /\ UNCHANGED <<rendering, parser>>

\* a process that reports success whatever happened
ExitSucceeded ==
    /\ build.pc = "shaders"
    /\ build.next > Len(Manifest)
    /\ build' = [build EXCEPT
          !.pc = "exited",
          !.cacheFile = IF build.dryRun THEN build.cacheFile
                        ELSE Save(build.m_compilerVersion, build.m_entries),
          !.exitCode = 0]
    /\ UNCHANGED <<rendering, parser>>

\* main.cpp lines 365-392: the cache is saved and the process exits
Exit ==
    /\ build.pc = "shaders"
    /\ build.next > Len(Manifest)
    /\ build' = [build EXCEPT
          !.pc = "exited",
          !.cacheFile = IF build.dryRun THEN build.cacheFile
                        ELSE Save(build.m_compilerVersion, build.m_entries),
          !.exitCode = IF build.errors > 0 THEN 1 ELSE 0]
    /\ UNCHANGED <<rendering, parser>>

NextBuild ==
    \/ EditSource
    \/ RemoveOutput
    \/ Main
    \/ ProcessShader
    \/ Exit

SpecBuild == InitBuild /\ [][NextBuild]_vars

\* the step handles shader s of the manifest
Processes(s) ==
    /\ build.pc = "shaders"
    /\ build.next <= Len(Manifest)
    /\ Manifest[build.next] = s
    /\ build'.next = build.next + 1

\* what the cache holds for shader s
EntryOf(b, s) == IF s \in DOMAIN b.m_entries THEN b.m_entries[s] ELSE NoFile

\* the cache file the run loaded was written for another compiler version
LoadedOtherVersion ==
    build.loaded.exists /\ build.loaded.compiler_version # CurrentCompilerVersion

(***************************************************************************)
(* C37  In a run that is not a dry run, a shader whose source exists is    *)
(* skipped (not compiled, its cache entry unchanged) exactly when --force  *)
(* was not given, the compiler version did not change, and the cache holds *)
(* for it an entry of the same hash whose recorded DXIL output exists;     *)
(* otherwise dxc is run on it.                                             *)
(***************************************************************************)
C37_SkippedIffUpToDate ==
    [][\A s \in ShaderNames :
          (Processes(s) /\ ~build.dryRun /\ build.sourceFiles[s] # 0) =>
              LET upToDate ==
                      /\ ~build.force
                      /\ ~LoadedOtherVersion
                      /\ build.loaded.exists
                      /\ s \in DOMAIN build.loaded.entries
                      /\ build.loaded.entries[s].hash = build.sourceFiles[s]
                      /\ OutputExists(build.loaded.entries[s].output_dxil)
                  skipped ==
                      /\ build'.skipped = build.skipped + 1
                      /\ build'.dxil = "none"
                      /\ build'.compiled = build.compiled
                      /\ build'.errors = build.errors
                      /\ EntryOf(build', s) = EntryOf(build, s)
                      /\ build'.outputFiles = build.outputFiles
              IN  /\ skipped <=> upToDate
                  /\ ~skipped => build'.dxil # "none" /\ build'.skipped = build.skipped]_vars

\* a run that was not forced skipped one shader and compiled the other
C37_SkippedOneCompiledOne ==
    /\ build.pc = "shaders"
    /\ ~build.dryRun
    /\ build.skipped = 1
    /\ build.compiled = 1

(***************************************************************************)
(* C38  The cache entry of a shader is updated only when its DXIL was      *)
(* compiled and saved in the run; when its source is missing, its          *)
(* compilation fails or the save fails, its entry stays as it was and the  *)
(* process exits with code 1.                                              *)
(***************************************************************************)
C38_UpdatedOnlyOnSuccess ==
    [][/\ \A s \in ShaderNames :
             /\ (build.pc = "shaders" /\ EntryOf(build', s) # EntryOf(build, s)) =>
                    /\ Processes(s)
                    /\ build'.dxil = "saved"
                    /\ DxilOutput(build.outputDir, s) \in build'.outputFiles
             /\ (Processes(s) /\ (build.sourceFiles[s] = 0
                                  \/ build'.dxil \in {"not compiled", "not saved"})) =>
                    /\ EntryOf(build', s) = EntryOf(build, s)
                    /\ s \in build'.failed
       /\ (build.pc = "shaders" /\ build'.pc = "exited" /\ build.failed # {}) =>
             /\ build'.exitCode = 1
             /\ \A s \in build.failed :
                   EntryOf(build', s) =
                       IF build.loaded.exists /\ s \in DOMAIN build.loaded.entries
                       THEN ParseJson(build.loaded)[s] ELSE NoFile]_vars

\* a run exited with code 1 after the save of a shader failed whose entry
\* the cache held
C38_FailedSaveKeptEntry ==
    /\ build.pc = "exited"
    /\ build.exitCode = 1
    /\ build.dxil = "not saved"
    /\ \E s \in build.failed : s \in DOMAIN build.m_entries

(***************************************************************************)
(* C39  A run that loads a cache recorded with another compiler version    *)
(* forces a full rebuild and saves the cache with the current compiler     *)
(* version, so that the next run does not force a rebuild again.           *)
(***************************************************************************)
C39_VersionTracked ==
    [][/\ (build.pc = "exited" /\ build'.pc = "shaders" /\ build.cacheFile.exists
              /\ build.cacheFile.compiler_version # CurrentCompilerVersion) =>
             build'.forceRebuild
       /\ (build.pc = "shaders" /\ build'.pc = "exited" /\ ~build.dryRun) =>
             build'.cacheFile.compiler_version = CurrentCompilerVersion]_vars

\* what the code does: the saved cache keeps the version it was loaded with
C39_VersionKept ==
    [][(build.pc = "shaders" /\ build'.pc = "exited" /\ ~build.dryRun) =>
          build'.cacheFile.compiler_version =
              IF build.loaded.exists THEN build.loaded.compiler_version
              ELSE CurrentCompilerVersion]_vars

(***************************************************************************)
(* IncludeParser (tools/ShaderCompiler/IncludeParser.h).  A path is the    *)
(* sequence of its components below the project root; fs::absolute and     *)
(* operator/ join components and resolve nothing, so ".." stays in the     *)
(* path.  The recursion of ParseRecursive is kept as a stack of the files  *)
(* being scanned, each with the includes still to handle.                  *)
(***************************************************************************)
\* the longest path, in components, the file system accepts
MaxPathLen == 7

Up == ".."

ShaderFile == <<"shaders", "A.hlsl">>

IncludeFile == <<"include", "B.hlsl">>

SourceFiles == {ShaderFile, IncludeFile}

Directories == {<<>>, <<"shaders">>, <<"include">>}

\* the #include lines a file of the tree may hold
IncludeLines ==
    [f \in SourceFiles |->
        IF f = ShaderFile
        THEN {<<"A.hlsl">>, <<Up, "include", "B.hlsl">>, <<"B.hlsl">>, <<"C.hlsl">>}
        ELSE {<<"B.hlsl">>, <<Up, "shaders", "A.hlsl">>, <<"C.hlsl">>}]

\* a file holds up to two of them
IncludeLists(f) ==
    {<<>>} \cup {<<a>> : a \in IncludeLines[f]}
           \cup {<<a, b>> : a \in IncludeLines[f], b \in IncludeLines[f]}

\* the file or directory a path leads to, <<"nothing">> if it leads nowhere
RECURSIVE Walk(_, _)
Walk(at, path) ==
    IF path = <<>> THEN at
    ELSE IF at \notin Directories THEN <<"nothing">>
    ELSE IF Head(path) = Up
         THEN Walk(IF at = <<>> THEN at ELSE SubSeq(at, 1, Len(at) - 1), Tail(path))
         ELSE Walk(Append(at, Head(path)), Tail(path))

\* fs::exists, of a path the file system accepts
PathExists(path) ==
    Len(path) <= MaxPathLen /\ Walk(<<>>, path) \in SourceFiles \cup Directories

\* main.cpp lines 172-180: the include directories that exist in the tree
m_includeDirs == <<<<"shaders">>, <<"include">>>>

\* IncludeParser.h lines 115-120
commonPrefixes == <<<<Up, "include">>, <<"include">>, <<Up>>, <<>>>>

\* ResolvePath lines 95-132: the paths it tries, in its order
Candidates(baseDir, includePath) ==
    <<baseDir \o includePath>>
    \o [k \in 1..Len(m_includeDirs) |-> m_includeDirs[k] \o includePath]
    \o [k \in 1..Len(commonPrefixes) |-> baseDir \o commonPrefixes[k] \o includePath]

FirstExisting(tries) ==
    IF \E k \in 1..Len(tries) : PathExists(tries[k])
    THEN CHOOSE k \in 1..Len(tries) :
            PathExists(tries[k]) /\ \A j \in 1..(k - 1) : ~PathExists(tries[j])
    ELSE 0

\* ResolvePath lines 95-132; <<>> is the empty string
ResolvePath(baseDir, includePath) ==
    LET tries == Candidates(baseDir, includePath)
        k == FirstExisting(tries)
    IN  IF k = 0 THEN <<>> ELSE tries[k]

\* a path it asks the file system about is longer than the file system
\* accepts: fs::exists then answers false or throws
AsksTooLong(baseDir, includePath) ==
    LET tries == Candidates(baseDir, includePath)
        k == FirstExisting(tries)
    IN  \E j \in 1..(IF k = 0 THEN Len(tries) ELSE k) : Len(tries[j]) > MaxPathLen

parent_path(path) == SubSeq(path, 1, Len(path) - 1)

InitParse ==
    /\ InitRendering
    /\ build = NoBuild
    /\ \E includes \in [SourceFiles -> UNION {IncludeLists(f) : f \in SourceFiles}] :
          /\ \A f \in SourceFiles : includes[f] \in IncludeLists(f)
          /\ parser = [pc |-> "idle", includes |-> includes, m_visited |-> {},
                       m_dependencies |-> {}, stack |-> <<>>, opened |-> <<>>]

\* ParseRecursive lines 48-70 for filePath, called with the frames in stack
\* below it: the parser after the file was entered or the call returned
Enter(p, stack, filePath) ==
    IF filePath \in p.m_visited THEN [p EXCEPT !.stack = stack]
    ELSE IF Walk(<<>>, filePath) \notin SourceFiles
    THEN [p EXCEPT !.stack = stack, !.m_visited = p.m_visited \cup {filePath}]
    ELSE [p EXCEPT
            !.m_visited = p.m_visited \cup {filePath},
            !.opened = Append(p.opened, filePath),
            !.stack = Append(stack,
                [path |-> filePath, todo |-> p.includes[Walk(<<>>, filePath)]])]

\* ParseDependencies lines 30-36
ParseDependencies ==
    /\ parser.pc = "idle"
    /\ parser' = Enter([parser EXCEPT !.pc = "parsing"], <<>>, ShaderFile)
    /\ UNCHANGED <<rendering, build>>

\* ParseRecursive lines 80-92: the next #include of the file on top
ParseInclude ==
    LET top == parser.stack[Len(parser.stack)]
        baseDir == parent_path(top.path)
        includePath == Head(top.todo)
        resolvedPath == ResolvePath(baseDir, includePath)
        rest == [parser.stack EXCEPT ![Len(parser.stack)].todo = Tail(top.todo)] IN
    /\ parser.pc = "parsing"
    /\ parser.stack # <<>>
    /\ top.todo # <<>>
    /\ \E throws \in BOOLEAN :
          IF throws /\ AsksTooLong(baseDir, includePath)
          THEN parser' = [parser EXCEPT !.pc = "aborted"]
          ELSE IF resolvedPath # <<>> /\ PathExists(resolvedPath)
          THEN parser' = Enter([parser EXCEPT !.m_dependencies =
                                   parser.m_dependencies \cup {resolvedPath}],
                               rest, resolvedPath)
          ELSE parser' = [parser EXCEPT !.stack = rest]
    /\ UNCHANGED <<rendering, build>>

\* ParseRecursive line 93: the file on top is done and the call returns
Return ==
    /\ parser.pc = "parsing"
    /\ parser.stack # <<>>
    /\ parser.stack[Len(parser.stack)].todo = <<>>
    /\ parser' = [parser EXCEPT !.stack = SubSeq(parser.stack, 1, Len(parser.stack) - 1)]
    /\ UNCHANGED <<rendering, build>>

\* ParseDependencies lines 38-40
ReturnDependencies ==
    /\ parser.pc = "parsing"
    /\ parser.stack = <<>>
    /\ parser' = [parser EXCEPT !.pc = "done"]
    /\ UNCHANGED <<rendering, build>>

NextParse ==
    \/ ParseDependencies
    \/ ParseInclude
    \/ Return
    \/ ReturnDependencies

SpecParse == InitParse /\ [][NextParse]_vars

SpecParseFair == SpecParse /\ WF_vars(NextParse)

\* how often the call opened and scanned file f
Scans(f) == Cardinality({k \in 1..Len(parser.opened) : Walk(<<>>, parser.opened[k]) = f})

(***************************************************************************)
(* C40  ParseDependencies terminates for every include graph, cyclic and   *)
(* self includes too, because each file is opened and scanned at most once *)
(* per call.                                                               *)
(***************************************************************************)
C40_ScannedOnce ==
    parser.pc # "none" => \A f \in SourceFiles : Scans(f) <= 1

\* what the visited set gives: no spelling of a path is opened twice
C40_EachSpellingOnce ==
    parser.pc # "none" =>
        \A j, k \in 1..Len(parser.opened) :
            parser.opened[j] = parser.opened[k] => j = k

\* with paths of at most MaxPathLen components the call ends, by its return
\* or by the exception of fs::exists
C40_Ends == <>(parser.pc \in {"done", "aborted"})

====
